---- MODULE Spec2Model ----
(***************************************************************************)
(* The CDC landing path of the Snowflake destination connector             *)
(* (flow/connectors/snowflake/snowflake.go) and the activities that drive  *)
(* it (flow/activities/flowable.go): SyncRecords, NormalizeRecords,        *)
(* SyncFlowCleanup, CreateRawTable, StartFlow and StartNormalize; the      *)
(* activities that need a capability of the destination; the record stream *)
(* (flow/model/qrecord_stream.go) and replicateQRepPartition;              *)
(* SetupNormalizedTable with the type mapping, DropFlow and                *)
(* QRepWaitUntilNewRows.                                                   *)
(*                                                                         *)
(* The destination database is modelled by its committed contents.  A DML  *)
(* statement executed through a sql.Tx is buffered in the transaction and  *)
(* takes effect, together with the others of that transaction, at Commit;  *)
(* a deferred Rollback discards the buffer.  A DDL statement takes effect  *)
(* when it is executed.  A query through c.database reads the committed    *)
(* contents at the moment it runs.                                         *)
(***************************************************************************)
EXTENDS Integers, Sequences, FiniteSets, TLC

(***************************************************************************)
(* Bounds of the model.                                                    *)
(***************************************************************************)
MaxLen == 1          \* records in one batch (transaction protocol)
MaxMergeLen == 2     \* records in one batch (MERGE)
MaxBatchID == 2      \* SyncRecords does not start once sync_batch_id reached it
MaxCP == 2           \* checkpoints (LSNs) are 0..MaxCP
MaxTime == 1         \* readings of the wall clock are 0..MaxTime
MaxBuffer == 2       \* capacities of the Records channel are 0..MaxBuffer
MaxRecords == 3      \* records the writer of a stream sends
MaxSetSchema == 3     \* calls of SetSchema
MaxColumns == 2      \* columns of a source table schema
MaxAttempts == 6     \* attemptCount of QRepWaitUntilNewRows counts up to here
MaxWaitSeconds == 2  \* config.WaitBetweenBatchesSeconds is in 0..MaxWaitSeconds
MaxSchemaCalls == 2  \* Schema() calls the reader of a stream makes

(***************************************************************************)
(* Program constants.                                                      *)
(***************************************************************************)
syncRecordsChunkSize == 1024
defaultWaitBetweenBatches == 5   \* seconds

Keys == {"1", "2"}             \* values of the primary key column ID
Vals == {"a", "b"}             \* values of the other column V
Null == "NULL"                 \* SQL NULL
Unserialisable == "chan"       \* a Go value json.Marshal rejects
Tables == {"t"}                \* destination table identifiers
NoJSON == <<>>                 \* the empty string stored as match_data of an insert
NoItems == [c \in {} |-> Null] \* an absent items map

Min2(a, b) == IF a <= b THEN a ELSE b

(***************************************************************************)
(* Records (flow/model): items are maps column -> value.  A record is      *)
(* built at checkpoint 0; WithCheckPoint gives it the checkpoint (LSN) at  *)
(* which it was read.                                                      *)
(***************************************************************************)
InsertRecord(k, v) == [kind |-> "insert", table |-> "t",
                       items |-> [id |-> k, v |-> v], oldItems |-> NoItems,
                       checkpoint |-> 0]
UpdateRecord(k, v) == [kind |-> "update", table |-> "t",
                       items |-> [id |-> k, v |-> v], oldItems |-> [id |-> k],
                       checkpoint |-> 0]
DeleteRecord(k) == [kind |-> "delete", table |-> "t",
                       items |-> [id |-> k], oldItems |-> NoItems,
                       checkpoint |-> 0]
OtherRecord == [kind |-> "relation", table |-> "t",
                       items |-> NoItems, oldItems |-> NoItems,
                       checkpoint |-> 0]

WithCheckPoint(rec, cp) == [rec EXCEPT !.checkpoint = cp]

\* Record.GetCheckPointID()
GetCheckPointID(rec) == rec.checkpoint

(***************************************************************************)
(* json.Marshal of an items map: the object's members in sorted key order, *)
(* or an error when a value cannot be serialised.                          *)
(***************************************************************************)
ColumnOrder == <<"id", "v">>

MarshalFails(items) == \E c \in DOMAIN items : items[c] = Unserialisable

RECURSIVE MarshalFrom(_, _)
MarshalFrom(items, i) ==
    IF i > Len(ColumnOrder) THEN <<>>
    ELSE IF ColumnOrder[i] \in DOMAIN items
         THEN <<<<ColumnOrder[i], items[ColumnOrder[i]]>>>> \o MarshalFrom(items, i + 1)
         ELSE MarshalFrom(items, i + 1)

Marshal(items) == MarshalFrom(items, 1)

(***************************************************************************)
(* CAST(VAR_COLS:col AS type) over PARSE_JSON(data): the member's value,   *)
(* NULL when the object has no such member.                                *)
(***************************************************************************)
JSONGet(json, col) ==
    IF \E i \in 1..Len(json) : json[i][1] = col
    THEN json[CHOOSE i \in 1..Len(json) : json[i][1] = col][2]
    ELSE Null

(***************************************************************************)
(* A row of the raw table (snowflakeRawRecord).  _PEERDB_UID is a random   *)
(* UUID that only tells rows apart: a row's position in the table stands   *)
(* for it.                                                                 *)
(***************************************************************************)
\* A raw row whose match_data is left empty for a delete as it is for an
\* insert.
RawRowDeleteUnmatched(rec, ts, batchID) ==
    [timestamp |-> ts,
     destinationTableName |-> rec.table,
     data |-> Marshal(rec.items),
     recordType |-> CASE rec.kind = "insert" -> 0
                      [] rec.kind = "update" -> 1
                      [] OTHER -> 2,
     matchData |-> CASE rec.kind = "update" -> Marshal(rec.oldItems)
                     [] OTHER -> NoJSON,
     batchID |-> batchID]

RawRow(rec, ts, batchID) ==
    [timestamp |-> ts,
     destinationTableName |-> rec.table,
     data |-> Marshal(rec.items),
     recordType |-> CASE rec.kind = "insert" -> 0
                      [] rec.kind = "update" -> 1
                      [] OTHER -> 2,
     matchData |-> CASE rec.kind = "insert" -> NoJSON
                     [] rec.kind = "update" -> Marshal(rec.oldItems)
                     [] OTHER -> Marshal(rec.items),
     batchID |-> batchID]

Supported(rec) == rec.kind \in {"insert", "update", "delete"}

\* The first record of the loop of SyncRecords that makes it return an error
\* (0 when none does).
FirstBadRecord(records) ==
    LET bad == {i \in 1..Len(records) :
                   \/ ~Supported(records[i])
                   \/ MarshalFails(records[i].items)
                   \/ (records[i].kind = "update" /\ MarshalFails(records[i].oldItems))}
    IN IF bad = {} THEN 0 ELSE CHOOSE i \in bad : \A j \in bad : i <= j

\* The rows SyncRecords builds: record i read the clock at tss[i].
BuildRows(records, tss, batchID) ==
    [i \in 1..Len(records) |-> RawRow(records[i], tss[i], batchID)]

\* The chunks of the insert loop: <<begin, end>> pairs over 1..n.
Chunks(n) ==
    {<<b + 1, Min2(b + syncRecordsChunkSize, n)>> :
        b \in {x \in 0..n : x < n /\ x % syncRecordsChunkSize = 0}}

(***************************************************************************)
(* mergeStatementSQL.  VARIANT_CONVERTED: the rows of the batch window for *)
(* one destination table.  FLATTENED: one column per schema column.        *)
(* DEDUPLICATED_FLATTENED: RANK() OVER (PARTITION BY ID ORDER BY timestamp *)
(* DESC) = 1, which keeps every row that shares the greatest timestamp of  *)
(* its key.                                                                *)
(***************************************************************************)
InWindow(raw, table, normalizeBatchID, syncBatchID) ==
    {i \in 1..Len(raw) : /\ raw[i].batchID > normalizeBatchID
                         /\ raw[i].batchID <= syncBatchID
                         /\ raw[i].destinationTableName = table}

Flattened(raw, i) ==
    [id |-> JSONGet(raw[i].data, "id"), v |-> JSONGet(raw[i].data, "v"),
     timestamp |-> raw[i].timestamp, recordType |-> raw[i].recordType]

Rank(raw, window, i) ==
    1 + Cardinality({j \in window :
                        /\ Flattened(raw, j).id = Flattened(raw, i).id
                        /\ raw[j].timestamp > raw[i].timestamp})

Deduplicated(raw, window) == {i \in window : Rank(raw, window, i) = 1}

(***************************************************************************)
(* A destination table is a bag of rows [id, v]: Snowflake does not        *)
(* enforce PRIMARY KEY, so the table can hold several rows of one key.     *)
(***************************************************************************)
DestRows == [id : Keys, v : Vals \cup {Null}]
EmptyTable == [r \in DestRows |-> 0]

RECURSIVE SumCounts(_, _)
SumCounts(bag, S) ==
    IF S = {} THEN 0
    ELSE LET r == CHOOSE x \in S : TRUE IN bag[r] + SumCounts(bag, S \ {r})

RowsOfKey(k) == {r \in DestRows : r.id = k}
CountOfKey(bag, k) == SumCounts(bag, RowsOfKey(k))

\* The source rows of the MERGE that join the target rows of key k.
SourceOfKey(raw, window, k) ==
    {i \in Deduplicated(raw, window) : Flattened(raw, i).id = k}

\* A target row joins several source rows and the MERGE cannot tell which
\* action to take (an UPDATE is among them): Snowflake fails the statement.
MergeNondeterministic(bag, raw, window) ==
    \E k \in Keys :
        /\ CountOfKey(bag, k) > 0
        /\ Cardinality(SourceOfKey(raw, window, k)) > 1
        /\ \E i \in SourceOfKey(raw, window, k) : raw[i].recordType # 2

\* The three WHEN clauses of the MERGE, per target row r.
MergeTable(bag, raw, window) ==
    [r \in DestRows |->
        LET src == SourceOfKey(raw, window, r.id) IN
        IF src = {} THEN bag[r]
        ELSE IF CountOfKey(bag, r.id) > 0
        THEN IF \E i \in src : raw[i].recordType = 2
             THEN 0
             ELSE IF \E i \in src : Flattened(raw, i).v = r.v
                  THEN CountOfKey(bag, r.id)
                  ELSE 0
        ELSE Cardinality({i \in src : /\ raw[i].recordType # 2
                                      /\ Flattened(raw, i).v = r.v})]

\* getDistinctDestinationTableNames
DistinctTableNames(raw, normalizeBatchID, syncBatchID) ==
    {raw[i].destinationTableName :
        i \in {j \in 1..Len(raw) : /\ raw[j].batchID > normalizeBatchID
                                   /\ raw[j].batchID <= syncBatchID}}

\* The loop of NormalizeRecords over the destination tables.
MergeAll(d, raw, tables, normalizeBatchID, syncBatchID) ==
    [t \in Tables |->
        IF t \in tables
        THEN MergeTable(d[t], raw, InWindow(raw, t, normalizeBatchID, syncBatchID))
        ELSE d[t]]

MergeAllFails(d, raw, tables, normalizeBatchID, syncBatchID) ==
    \E t \in tables :
        MergeNondeterministic(d[t], raw, InWindow(raw, t, normalizeBatchID, syncBatchID))

(***************************************************************************)
(* The job's rows of PEERDB_MIRROR_JOBS.  The table declares no key, so it *)
(* is a list of rows; a SELECT ... WHERE MIRROR_JOB_NAME=? followed by one *)
(* rows.Next() reads any one of them.                                      *)
(***************************************************************************)
MetaRow(offset, syncBatchID, normalizeBatchID) ==
    [offset |-> offset, syncBatchID |-> syncBatchID,
     normalizeBatchID |-> normalizeBatchID]

LastSyncBatchIDs(m) ==
    IF m = <<>> THEN {0} ELSE {m[i].syncBatchID : i \in 1..Len(m)}

LastNormalizeBatchIDs(m) ==
    IF m = <<>> THEN {0} ELSE {m[i].normalizeBatchID : i \in 1..Len(m)}

jobMetadataExists(m) == m # <<>>

\* A SyncRecords that reuses the batch id it read.
ReusedSyncBatchID(last) == last

NextSyncBatchID(last) == last + 1

\* updateSyncMetadata: INSERT (job, lastCP, syncBatchID, 0) or
\* UPDATE ... SET OFFSET=lastCP, SYNC_BATCH_ID=syncBatchID.
ApplySyncMetadata(m, op, lastCP, syncBatchID) ==
    IF op = "insert"
    THEN Append(m, MetaRow(lastCP, syncBatchID, 0))
    ELSE [i \in 1..Len(m) |->
            [m[i] EXCEPT !.offset = lastCP, !.syncBatchID = syncBatchID]]

\* updateNormalizeMetadata: UPDATE ... SET NORMALIZE_BATCH_ID=syncBatchID.
ApplyNormalizeMetadata(m, syncBatchID) ==
    [i \in 1..Len(m) |-> [m[i] EXCEPT !.normalizeBatchID = syncBatchID]]

(***************************************************************************)
(* Job names and getRawTableIdentifier.  A name is a sequence of           *)
(* characters; regexp [^a-zA-Z0-9]+ matches every maximal run of           *)
(* characters that are not letters or digits, and ReplaceAllString puts    *)
(* one "_" in place of each run.                                           *)
(***************************************************************************)
Alphanumeric == {"a", "b"}

rawTablePrefix == <<"_", "P", "E", "E", "R", "D", "B", "_", "R", "A", "W">>

RECURSIVE ReplaceRuns(_, _)
ReplaceRuns(name, inRun) ==
    IF name = <<>> THEN <<>>
    ELSE IF Head(name) \in Alphanumeric
         THEN <<Head(name)>> \o ReplaceRuns(Tail(name), FALSE)
         ELSE IF inRun
              THEN ReplaceRuns(Tail(name), TRUE)
              ELSE <<"_">> \o ReplaceRuns(Tail(name), TRUE)

getRawTableIdentifier(jobName) ==
    rawTablePrefix \o <<"_">> \o ReplaceRuns(jobName, FALSE)

\* Flow job names: with a dash, with a dash and a dot, with neither.
JobNames == {<<"a", "-", "b">>, <<"a", "-", ".", "b">>, <<"a", "b">>}

RawTableIdentifiers == {getRawTableIdentifier(j) : j \in JobNames}

\* A raw table that does not exist.
NoTable == [exists |-> FALSE, rows |-> <<>>]

(***************************************************************************)
(* getSnowflakeTypeForGenericColumnType.  The generic column types are     *)
(* named after the model.ColumnType constants; "unknown" stands for any    *)
(* string that is none of them.                                            *)
(***************************************************************************)
ColumnTypes ==
    {"bool", "int32", "int64", "float32", "float64", "string", "timestamp",
     "numeric", "bytes", "json", "array_int32", "array_string", "unknown"}

getSnowflakeTypeForGenericColumnType(colType) ==
    CASE colType = "bool" -> "BOOLEAN"
      [] colType = "int32" -> "INT"
      [] colType = "int64" -> "INT"
      [] colType = "float32" -> "FLOAT"
      [] colType = "float64" -> "FLOAT"
      [] colType = "string" -> "STRING"
      [] colType = "timestamp" -> "TIMESTAMP_NTZ"
      [] OTHER -> "STRING"

(***************************************************************************)
(* generateCreateTableSQLForNormalizedTable: one column definition per     *)
(* column of the source schema, as a set (the columns are a Go map, which  *)
(* is ranged over in no fixed order).                                      *)
(***************************************************************************)
ColumnNames == {"id", "v"}

ToUpper(name) ==
    CASE name = "id" -> "ID"
      [] name = "v" -> "V"
      [] OTHER -> name

\* protos.TableSchema: Columns maps at most MaxColumns column names to
\* generic types.
TableSchemas ==
    {[Columns |-> cols, PrimaryKeyColumn |-> "id"] :
        cols \in UNION {[D -> ColumnTypes] :
                          D \in {E \in SUBSET ColumnNames :
                                    Cardinality(E) <= MaxColumns}}}

generateCreateTableSQLForNormalizedTable(sourceTableSchema) ==
    {IF sourceTableSchema.PrimaryKeyColumn = c
     THEN [name |-> ToUpper(c),
           type |-> getSnowflakeTypeForGenericColumnType(
                        sourceTableSchema.Columns[c]),
           primaryKey |-> TRUE, of |-> c]
     ELSE [name |-> c,
           type |-> getSnowflakeTypeForGenericColumnType(
                        sourceTableSchema.Columns[c]),
           primaryKey |-> FALSE, of |-> c] :
        c \in DOMAIN sourceTableSchema.Columns}

(***************************************************************************)
(* State.                                                                  *)
(***************************************************************************)
VARIABLES
    meta,       \* committed rows of PEERDB_MIRROR_JOBS for the job
    rawExists,  \* the job's raw table exists
    raw,        \* committed rows of the raw table, in insertion order
    dest,       \* committed contents of the destination tables
    now,        \* the wall clock
    sync,       \* per worker: the StartFlow / SyncRecords execution
    norm,       \* the NormalizeRecords execution
    clean,      \* the SyncFlowCleanup execution
    ret,        \* what the latest call that returned gave its caller
    pre,        \* the committed state when the latest call began (history)
    mirrorJobs, \* several jobs: committed rows of PEERDB_MIRROR_JOBS per job name
    rawTables,  \* several jobs: the raw tables, per table identifier
    jobRet,     \* several jobs: the latest call, its job and its outcome
    catalog,    \* activities: the end times the catalog monitor has recorded
    destCalls,  \* activities: what the latest activity asked of the destination
    actRet,     \* activities: the latest activity and what it returned
    stream,     \* record stream: the fields of the QRecordStream
    producer,   \* record stream: the goroutine that writes the stream
    consumer,   \* record stream: the goroutine that reads the stream
    qrep,       \* replicateQRepPartition: the activity and its pull goroutine
    createTable, \* SetupNormalizedTable: the normalized table and the latest call
    drop,       \* DropFlow: the activity
    wait        \* QRepWaitUntilNewRows: the activity

\* The state of the views that look at several jobs.
jobVars == <<mirrorJobs, rawTables, jobRet>>
actVars == <<catalog, destCalls, actRet>>
streamVars == <<stream, producer, consumer>>
otherVars == <<createTable, drop, wait>>
extVars == <<jobVars, actVars, streamVars, qrep, otherVars>>
cdcVars == <<meta, rawExists, raw, dest, now, sync, norm, clean, ret, pre>>

vars == <<cdcVars, extVars>>

Workers == {1, 2}

NoRet == [op |-> "none", st |-> "none", at |-> "", num |-> 0, last |-> 0,
          first |-> 0, currentSyncBatchID |-> 0, nil |-> FALSE,
          worked |-> FALSE, start |-> 0, end |-> 0, soft |-> FALSE]
Err(op, site) == [NoRet EXCEPT !.op = op, !.st = "err", !.at = site]
Ok(op) == [NoRet EXCEPT !.op = op, !.st = "ok"]

\* model.SyncResponse as SyncRecords fills it: FirstSyncedCheckPointID,
\* LastSyncedCheckPointID and NumRecordsSynced.  CurrentSyncBatchID is not
\* assigned and keeps the zero value of its type.
SyncResponse(first, last, num) ==
    [Ok("sync") EXCEPT !.first = first, !.last = last, !.num = num,
                       !.currentSyncBatchID = 0]

\* model.NormalizeResponse
NormalizeResponse(soft, worked, start, end) ==
    [Ok("normalize") EXCEPT !.soft = soft, !.worked = worked,
                            !.start = start, !.end = end]

\* monitorBatchID is the BatchID that StartFlow has handed to
\* AddCDCBatchForFlow, 0 while it has handed none.
SyncIdle ==
    [pc |-> "idle", flow |-> FALSE, records |-> <<>>, lastCP |-> 0,
     syncBatchID |-> 0, rows |-> <<>>, metaOp |-> "none", res |-> NoRet,
     monitorBatchID |-> 0]

NormIdle ==
    [pc |-> "idle", soft |-> FALSE, syncBatchID |-> 0, normalizeBatchID |-> 0,
     tables |-> {}, tx |-> [t \in Tables |-> EmptyTable]]

CleanIdle == [pc |-> "idle"]

Committed ==
    [meta |-> meta, rawExists |-> rawExists, raw |-> raw, dest |-> dest]

NoJobRet == [op |-> "none", job |-> <<>>, st |-> "none"]

\* What obtaining a capability of the destination peer can give.
GetResults == {"nil", "ErrUnsupportedFunctionality", "other"}

\* A nil *model.NormalizeResponse.
NilResponse == [nil |-> TRUE, done |-> FALSE, start |-> 0, end |-> 0]

NoActRet == [op |-> "none", get |-> "nil", err |-> "nil", res |-> NilResponse]

\* No job has a metadata row, no raw table exists.
JobsInit ==
    /\ mirrorJobs = [j \in JobNames |-> <<>>]
    /\ rawTables = [t \in RawTableIdentifiers |-> NoTable]
    /\ jobRet = NoJobRet

\* No activity has run.
ActivitiesInit ==
    /\ catalog = [cdcEnd |-> {}, qrepEnd |-> FALSE]
    /\ destCalls = {}
    /\ actRet = NoActRet

\* A NewQRecordStream whose Records channel has room for one record more
\* than asked for.
NewQRecordStreamWider(buffer) ==
    [buffer |-> buffer, capacity |-> buffer + 1, schema |-> <<>>,
     Records |-> <<>>, schemaSet |-> FALSE, schemaCache |-> Null,
     announced |-> <<>>]

\* model.NewQRecordStream(buffer): a schema channel of capacity 1, a Records
\* channel of capacity buffer, no schema set.  buffer keeps the argument and
\* announced lists the schemas SetSchema has put on the schema channel
\* (history).
NewQRecordStream(buffer) ==
    [buffer |-> buffer, capacity |-> buffer, schema |-> <<>>,
     Records |-> <<>>, schemaSet |-> FALSE, schemaCache |-> Null,
     announced |-> <<>>]

ProducerIdle ==
    [pc |-> "idle", arg |-> Null, ret |-> "none", setCalls |-> 0, sent |-> 0]

\* What a Schema() call returns: the schema (Null for nil) and the error.
SchemaResult(schema, err) == [schema |-> schema, err |-> err]

\* The reader has received no record and has not called Schema():
\* schemaCalls counts the Schema() calls that have returned, first and last
\* keep what the first and the latest of them returned (history).
ConsumerIdle ==
    [received |-> 0, schemaCalls |-> 0, first |-> SchemaResult(Null, "none"),
     last |-> SchemaResult(Null, "none")]

StreamInit(buffers) ==
    /\ stream \in {NewQRecordStream(b) : b \in buffers}
    /\ producer = ProducerIdle
    /\ consumer = ConsumerIdle

\* replicateQRepPartition has not been called.  goroutineErr, numRecords
\* and res are its locals; pullFailed tells that the pull side has failed
\* and sawFailure that it had when the activity returned (history);
\* partEnd tells that UpdateEndTimeForPartition recorded the partition as
\* replicated.
QRepIdle ==
    [pc |-> "idle", pg |-> FALSE, gpc |-> "none", goroutineErr |-> "nil",
     numRecords |-> 0, res |-> 0, ret |-> "none", pullFailed |-> FALSE,
     sawFailure |-> FALSE, partEnd |-> FALSE]

\* No normalized table exists and SetupNormalizedTable has not been called.
NoNormalizedTable ==
    [exists |-> FALSE, schema |-> [Columns |-> <<>>, PrimaryKeyColumn |-> "id"],
     columns |-> {}, ret |-> "none"]

\* DropFlow has not been called.  srcCleaned tells that PullFlowCleanup
\* has returned success in the latest call (history).
DropIdle == [pc |-> "idle", ret |-> "none", srcCleaned |-> FALSE]

\* QRepWaitUntilNewRows has not been called.  waitBetweenBatches (seconds)
\* and attemptCount are its locals;
\* slept tells that time.Sleep has returned since the latest check, checked
\* that CheckForUpdatedMaxValue has been called, newRows that its latest
\* call reported new rows, and cancelled that the cancellation of the
\* activity has been requested (history).
WaitIdle ==
    [pc |-> "idle", pg |-> FALSE, ret |-> "none", waitBetweenBatches |-> 0,
     attemptCount |-> 1, slept |-> FALSE, checked |-> FALSE,
     newRows |-> FALSE, cancelled |-> FALSE]

OtherInit ==
    /\ createTable = NoNormalizedTable
    /\ drop = DropIdle
    /\ wait = WaitIdle

ExtInit ==
    /\ JobsInit /\ ActivitiesInit /\ StreamInit({1}) /\ qrep = QRepIdle
    /\ OtherInit

\* The job is set up: no metadata row, an empty raw table.  The transaction
\* protocol does not read the timestamps: the clock is at its last reading,
\* and every record reads that instant.
CdcInit ==
    /\ meta = <<>>
    /\ rawExists = TRUE
    /\ raw = <<>>
    /\ dest = [t \in Tables |-> EmptyTable]
    /\ now = MaxTime
    /\ sync = [w \in Workers |-> SyncIdle]
    /\ norm = NormIdle
    /\ clean = CleanIdle
    /\ ret = NoRet
    /\ pre = Committed

Init == CdcInit /\ ExtInit

AllIdle ==
    /\ \A w \in Workers : sync[w].pc = "idle"
    /\ norm.pc = "idle"
    /\ clean.pc = "idle"

\* Non-decreasing clock readings for n records, none before the clock.
ClockReadings(n) ==
    {tss \in [1..n -> now..MaxTime] :
        \A i \in 1..n : \A j \in 1..n : i <= j => tss[i] <= tss[j]}

(***************************************************************************)
(* SyncRecords.                                                            *)
(***************************************************************************)
\* SyncRecords returns an error: to its caller, or to StartFlow, which
\* returns it (flowable.go lines 274-277).
SyncError(w, site) ==
    /\ sync' = [sync EXCEPT ![w] = SyncIdle]
    /\ ret' = Err(IF sync[w].flow THEN "flow" ELSE "sync", site)

\* SyncRecords returns a response: to its caller, or into StartFlow.
SyncSuccess(w, res) ==
    /\ sync' = [sync EXCEPT ![w] =
                   IF sync[w].flow
                   THEN [SyncIdle EXCEPT !.pc = "flow_pushed", !.flow = TRUE,
                                         !.lastCP = sync[w].lastCP, !.res = res,
                                         !.monitorBatchID = sync[w].monitorBatchID]
                   ELSE SyncIdle]
    /\ ret' = res

\* Lines 329-417: read the last batch id, build the raw records, return
\* early on an empty batch.
SyncBegin(w, records, lastCP) ==
    /\ \A s \in LastSyncBatchIDs(meta) : s < MaxBatchID
    /\ \/ /\ SyncError(w, "read")
          /\ UNCHANGED now
       \/ /\ FirstBadRecord(records) # 0
          /\ SyncError(w, "record")
          /\ UNCHANGED now
       \/ /\ FirstBadRecord(records) = 0
          /\ Len(records) = 0
          /\ SyncSuccess(w, SyncResponse(0, 0, 0))
          /\ UNCHANGED now
       \/ /\ FirstBadRecord(records) = 0
          /\ Len(records) > 0
          /\ \E last \in LastSyncBatchIDs(meta) :
             \E tss \in ClockReadings(Len(records)) :
                /\ sync' = [sync EXCEPT ![w] =
                       [SyncIdle EXCEPT !.pc = "sync_tx", !.flow = sync[w].flow,
                           !.monitorBatchID = sync[w].monitorBatchID,
                           !.records = records, !.lastCP = lastCP,
                           !.syncBatchID = NextSyncBatchID(last),
                           !.rows = BuildRows(records, tss, NextSyncBatchID(last))]]
                /\ now' = tss[Len(records)]
                /\ ret' = NoRet
    /\ UNCHANGED <<meta, rawExists, raw, dest, norm, clean, extVars>>

\* Lines 419-444: BeginTx or a chunk insert fails; the deferred Rollback runs.
SyncInsertFail(w) ==
    /\ sync[w].pc = "sync_tx"
    /\ SyncError(w, "insert")
    /\ UNCHANGED <<meta, rawExists, raw, dest, now, norm, clean, pre, extVars>>

\* Chunk inserts that run on the connection instead of the transaction.
SyncInsertOutsideTx(w) ==
    /\ sync[w].pc = "sync_tx"
    /\ rawExists
    /\ raw' = raw \o sync[w].rows
    /\ sync' = [sync EXCEPT ![w].pc = "sync_meta"]
    /\ UNCHANGED <<meta, rawExists, dest, now, norm, clean, ret, pre, extVars>>

\* Lines 419-444: every chunk is inserted through the transaction.
SyncInsert(w) ==
    /\ sync[w].pc = "sync_tx"
    /\ rawExists
    /\ UNION {c[1]..c[2] : c \in Chunks(Len(sync[w].rows))} = 1..Len(sync[w].rows)
    /\ sync' = [sync EXCEPT ![w].pc = "sync_meta"]
    /\ UNCHANGED <<meta, rawExists, raw, dest, now, norm, clean, ret, pre, extVars>>

\* Lines 447-450, 761-784: updateSyncMetadata fails.
SyncMetadataFail(w) ==
    /\ sync[w].pc = "sync_meta"
    /\ SyncError(w, "metadata")
    /\ UNCHANGED <<meta, rawExists, raw, dest, now, norm, clean, pre, extVars>>

\* Lines 447-450, 761-784: jobMetadataExists is asked of c.database, the
\* INSERT or UPDATE goes through the transaction.
SyncMetadata(w) ==
    /\ sync[w].pc = "sync_meta"
    /\ sync' = [sync EXCEPT ![w].pc = "sync_commit",
                            ![w].metaOp = IF jobMetadataExists(meta)
                                          THEN "update" ELSE "insert"]
    /\ UNCHANGED <<meta, rawExists, raw, dest, now, norm, clean, ret, pre, extVars>>

\* Lines 452-455: Commit fails; nothing of the transaction is applied.
SyncCommitFail(w) ==
    /\ sync[w].pc = "sync_commit"
    /\ SyncError(w, "commit")
    /\ UNCHANGED <<meta, rawExists, raw, dest, now, norm, clean, pre, extVars>>

\* A Commit after which the raw table holds the rows of this batch only.
SyncCommitReplacing(w) ==
    /\ sync[w].pc = "sync_commit"
    /\ rawExists
    /\ raw' = sync[w].rows
    /\ meta' = ApplySyncMetadata(meta, sync[w].metaOp, sync[w].lastCP,
                                 sync[w].syncBatchID)
    /\ SyncSuccess(w, SyncResponse(GetCheckPointID(sync[w].records[1]),
                                    sync[w].lastCP, Len(sync[w].rows)))
    /\ UNCHANGED <<rawExists, dest, now, norm, clean, pre, extVars>>

\* Lines 452-461: Commit applies the inserts and the metadata upsert.
SyncCommit(w) ==
    /\ sync[w].pc = "sync_commit"
    /\ rawExists
    /\ raw' = raw \o sync[w].rows
    /\ meta' = ApplySyncMetadata(meta, sync[w].metaOp, sync[w].lastCP,
                                 sync[w].syncBatchID)
    /\ SyncSuccess(w, SyncResponse(GetCheckPointID(sync[w].records[1]),
                                    sync[w].lastCP, Len(sync[w].rows)))
    /\ UNCHANGED <<rawExists, dest, now, norm, clean, pre, extVars>>

\* A direct call of SyncRecords.
SyncRecords(w, records, lastCP) ==
    /\ sync[w].pc = "idle"
    /\ SyncBegin(w, records, lastCP)
    /\ pre' = Committed

(***************************************************************************)
(* StartFlow (flowable.go): pull, record the batch in the catalog monitor, *)
(* SyncRecords, record the synced LSN in the catalog monitor.              *)
(***************************************************************************)
\* Lines 159-211: a connector cannot be obtained, or PullRecords fails.
FlowPullFail(w) ==
    /\ sync[w].pc = "idle"
    /\ ret' = Err("flow", "pull")
    /\ UNCHANGED <<meta, rawExists, raw, dest, now, sync, norm, clean, extVars>>
    /\ pre' = Committed

\* Lines 196-215: PullRecords returns a batch.
FlowPull(w, records, lastCP) ==
    /\ sync[w].pc = "idle"
    /\ sync' = [sync EXCEPT ![w] =
                   [SyncIdle EXCEPT !.pc = "flow_pulled", !.flow = TRUE,
                                    !.records = records, !.lastCP = lastCP]]
    /\ ret' = NoRet
    /\ UNCHANGED <<meta, rawExists, raw, dest, now, norm, clean, extVars>>
    /\ pre' = Committed

\* Lines 217-234: GetLastSyncBatchID or AddCDCBatchForFlow fails.
FlowAddBatchFail(w) ==
    /\ sync[w].pc = "flow_pulled"
    /\ Len(sync[w].records) > 0
    /\ sync[w].monitorBatchID = 0
    /\ sync' = [sync EXCEPT ![w] = SyncIdle]
    /\ ret' = Err("flow", "monitor_batch")
    /\ UNCHANGED <<meta, rawExists, raw, dest, now, norm, clean, pre, extVars>>

\* Lines 217-234: with an active monitor and a batch that is not empty,
\* StartFlow reads the last sync batch id and records the batch in the
\* monitor with the batch id after it.
FlowAddBatch(w) ==
    /\ sync[w].pc = "flow_pulled"
    /\ Len(sync[w].records) > 0
    /\ sync[w].monitorBatchID = 0
    /\ \E last \in LastSyncBatchIDs(meta) :
          sync' = [sync EXCEPT ![w].monitorBatchID = last + 1]
    /\ UNCHANGED <<meta, rawExists, raw, dest, now, norm, clean, ret, pre, extVars>>

\* Lines 243-254: no records were pulled, StartFlow returns without syncing.
FlowNoRecords(w) ==
    /\ sync[w].pc = "flow_pulled"
    /\ Len(sync[w].records) = 0
    /\ sync' = [sync EXCEPT ![w] = SyncIdle]
    /\ ret' = Ok("flow")
    /\ UNCHANGED <<meta, rawExists, raw, dest, now, norm, clean, pre, extVars>>

\* Lines 236-277: the batch is recorded, or the monitor is inactive, and
\* SyncRecords is called.
FlowSync(w) ==
    /\ sync[w].pc = "flow_pulled"
    /\ Len(sync[w].records) > 0
    /\ SyncBegin(w, sync[w].records, sync[w].lastCP)
    /\ UNCHANGED pre

\* Lines 284-299: UpdateLatestLSNAtTargetForCDCFlow fails after SyncRecords
\* returned: StartFlow returns the error.
FlowUpdateLSNFail(w) ==
    /\ sync[w].pc = "flow_pushed"
    /\ sync' = [sync EXCEPT ![w] = SyncIdle]
    /\ ret' = Err("flow", "monitor_lsn")
    /\ UNCHANGED <<meta, rawExists, raw, dest, now, norm, clean, pre, extVars>>

\* Lines 284-309: StartFlow returns the response of SyncRecords.
FlowReturn(w) ==
    /\ sync[w].pc = "flow_pushed"
    /\ sync' = [sync EXCEPT ![w] = SyncIdle]
    /\ ret' = [sync[w].res EXCEPT !.op = "flow"]
    /\ UNCHANGED <<meta, rawExists, raw, dest, now, norm, clean, pre, extVars>>

(***************************************************************************)
(* NormalizeRecords.                                                       *)
(***************************************************************************)
NormFail(pc, site) ==
    /\ norm.pc = pc
    /\ norm' = NormIdle
    /\ ret' = Err("normalize", site)
    /\ UNCHANGED <<meta, rawExists, raw, dest, now, sync, clean, pre, extVars>>

NormDone ==
    /\ norm' = NormIdle
    /\ ret' = NormalizeResponse(norm.soft, FALSE, 0, 0)

\* Lines 353-356 of flowable.go and 466-469: the call, and GetLastSyncBatchID.
NormReadSync(soft) ==
    /\ norm.pc = "idle"
    /\ \E s \in LastSyncBatchIDs(meta) :
          norm' = [NormIdle EXCEPT !.pc = "read", !.soft = soft, !.syncBatchID = s]
    /\ ret' = NoRet
    /\ UNCHANGED <<meta, rawExists, raw, dest, now, sync, clean, extVars>>
    /\ pre' = Committed

NormReadSyncFail ==
    /\ norm.pc = "idle"
    /\ ret' = Err("normalize", "idle")
    /\ UNCHANGED <<meta, rawExists, raw, dest, now, sync, norm, clean, extVars>>
    /\ pre' = Committed

\* A NormalizeRecords that goes on without comparing the two batch ids.
NormReadNormalizeUncompared ==
    /\ norm.pc = "read"
    /\ \E n \in LastNormalizeBatchIDs(meta) :
          /\ norm' = [norm EXCEPT !.pc = "exists", !.normalizeBatchID = n]
          /\ UNCHANGED ret
    /\ UNCHANGED <<meta, rawExists, raw, dest, now, sync, clean, pre, extVars>>

\* Lines 470-479: GetLastNormalizeBatchID; caught up means Done.
NormReadNormalize ==
    /\ norm.pc = "read"
    /\ \E n \in LastNormalizeBatchIDs(meta) :
          IF n = norm.syncBatchID
          THEN NormDone
          ELSE /\ norm' = [norm EXCEPT !.pc = "exists", !.normalizeBatchID = n]
               /\ UNCHANGED ret
    /\ UNCHANGED <<meta, rawExists, raw, dest, now, sync, clean, pre, extVars>>

\* Lines 481-490: no metadata row yet means Done.
NormExists ==
    /\ norm.pc = "exists"
    /\ IF jobMetadataExists(meta)
       THEN /\ norm' = [norm EXCEPT !.pc = "tables"]
            /\ UNCHANGED ret
       ELSE NormDone
    /\ UNCHANGED <<meta, rawExists, raw, dest, now, sync, clean, pre, extVars>>

\* Lines 491-494: getDistinctTableNamesInBatch.
NormTables ==
    /\ norm.pc = "tables"
    /\ rawExists
    /\ norm' = [norm EXCEPT !.pc = "merge",
                   !.tables = DistinctTableNames(raw, norm.normalizeBatchID,
                                                 norm.syncBatchID)]
    /\ UNCHANGED <<meta, rawExists, raw, dest, now, sync, clean, ret, pre, extVars>>

\* A NormalizeRecords that runs its MERGEs on the connection instead of the
\* transaction: each takes effect at once.
NormMergeOutsideTx ==
    /\ norm.pc = "merge"
    /\ rawExists \/ norm.tables = {}
    /\ ~MergeAllFails(dest, raw, norm.tables, norm.normalizeBatchID, norm.syncBatchID)
    /\ dest' = MergeAll(dest, raw, norm.tables, norm.normalizeBatchID,
                        norm.syncBatchID)
    /\ norm' = [norm EXCEPT !.pc = "metadata", !.tx = dest']
    /\ UNCHANGED <<meta, rawExists, raw, now, sync, clean, ret, pre, extVars>>

\* Lines 496-516: BeginTx and one MERGE per destination table.
NormMerge ==
    /\ norm.pc = "merge"
    /\ rawExists \/ norm.tables = {}
    /\ ~MergeAllFails(dest, raw, norm.tables, norm.normalizeBatchID, norm.syncBatchID)
    /\ norm' = [norm EXCEPT !.pc = "metadata",
                   !.tx = MergeAll(dest, raw, norm.tables, norm.normalizeBatchID,
                                   norm.syncBatchID)]
    /\ UNCHANGED <<meta, rawExists, raw, dest, now, sync, clean, ret, pre, extVars>>

\* Lines 517-521, 786-803: updateNormalizeMetadata.
NormMetadata ==
    /\ norm.pc = "metadata"
    /\ jobMetadataExists(meta)
    /\ norm' = [norm EXCEPT !.pc = "commit"]
    /\ UNCHANGED <<meta, rawExists, raw, dest, now, sync, clean, ret, pre, extVars>>

\* Lines 522-532: Commit applies the MERGEs and the metadata update.
NormCommit ==
    /\ norm.pc = "commit"
    /\ dest' = norm.tx
    /\ meta' = ApplyNormalizeMetadata(meta, norm.syncBatchID)
    /\ norm' = NormIdle
    /\ ret' = NormalizeResponse(norm.soft, TRUE, norm.normalizeBatchID + 1,
                                norm.syncBatchID)
    /\ UNCHANGED <<rawExists, raw, now, sync, clean, pre, extVars>>

(***************************************************************************)
(* SyncFlowCleanup and CreateRawTable.                                     *)
(***************************************************************************)
CleanFail(pc) ==
    /\ clean.pc = pc
    /\ clean' = CleanIdle
    /\ ret' = Err("cleanup", pc)
    /\ UNCHANGED <<meta, rawExists, raw, dest, now, sync, norm, extVars>>
    /\ pre' = IF pc = "idle" THEN Committed ELSE pre

\* Lines 580-596: BeginTx and DROP TABLE IF EXISTS.  DROP TABLE is a DDL
\* statement: Snowflake commits the open transaction and runs the statement
\* as a transaction of its own, so the table is gone when ExecContext returns.
CleanDrop ==
    /\ clean.pc = "idle"
    /\ rawExists' = FALSE
    /\ raw' = <<>>
    /\ clean' = [pc |-> "delete"]
    /\ ret' = NoRet
    /\ UNCHANGED <<meta, dest, now, sync, norm, extVars>>
    /\ pre' = Committed

\* Lines 597-601: DELETE of the job's metadata.
CleanDelete ==
    /\ clean.pc = "delete"
    /\ clean' = [pc |-> "commit"]
    /\ UNCHANGED <<meta, rawExists, raw, dest, now, sync, norm, ret, pre, extVars>>

\* Lines 602-606: Commit.
CleanCommit ==
    /\ clean.pc = "commit"
    /\ meta' = <<>>
    /\ clean' = CleanIdle
    /\ ret' = Ok("cleanup")
    /\ UNCHANGED <<rawExists, raw, dest, now, sync, norm, pre, extVars>>

\* Lines 535-560: CREATE TABLE IF NOT EXISTS of the raw table.
CreateRawTable ==
    /\ rawExists' = TRUE
    /\ ret' = Ok("create")
    /\ UNCHANGED <<meta, raw, dest, now, sync, norm, clean, extVars>>
    /\ pre' = Committed

(***************************************************************************)
(* GetLastOffset (snowflake.go lines 197-221): a query through c.database. *)
(* The response is nil (ret.nil) or a LastSyncState with a Checkpoint      *)
(* (ret.last).                                                             *)
(***************************************************************************)
\* A GetLastOffset that returns the stored offset whatever it is.
GetLastOffsetOfAnyValue(err) ==
    /\ ret' = IF err THEN Err("offset", "read")
              ELSE IF meta = <<>> THEN [Ok("offset") EXCEPT !.nil = TRUE]
              ELSE [Ok("offset") EXCEPT !.last = meta[1].offset]
    /\ pre' = Committed
    /\ UNCHANGED <<meta, rawExists, raw, dest, now, sync, norm, clean, extVars>>

GetLastOffset(err) ==
    /\ \/ /\ err
          /\ ret' = Err("offset", "read")
       \/ /\ ~err /\ meta = <<>>
          /\ ret' = [Ok("offset") EXCEPT !.nil = TRUE]
       \/ /\ ~err
          /\ \E i \in DOMAIN meta :
                ret' = IF meta[i].offset = 0
                       THEN [Ok("offset") EXCEPT !.nil = TRUE]
                       ELSE [Ok("offset") EXCEPT !.last = meta[i].offset]
    /\ pre' = Committed
    /\ UNCHANGED <<meta, rawExists, raw, dest, now, sync, norm, clean, extVars>>

(***************************************************************************)
(* DropFlow (flowable.go lines 620-642): PullFlowCleanup on the source,    *)
(* then SyncFlowCleanup on the destination, whose steps are the ones       *)
(* above.  srcGet, dstGet and err are what obtaining the connectors and    *)
(* PullFlowCleanup return.                                                 *)
(***************************************************************************)
\* Lines 620-631: the connectors are obtained.
DropStart(srcGet, dstGet) ==
    /\ drop.pc = "idle"
    /\ drop' = IF srcGet # "nil"
               THEN [DropIdle EXCEPT !.ret = "failed to get source connector"]
               ELSE IF dstGet # "nil"
               THEN [DropIdle EXCEPT !.ret = "failed to get destination connector"]
               ELSE [DropIdle EXCEPT !.pc = "pull"]
    /\ ret' = NoRet
    /\ pre' = Committed
    /\ UNCHANGED <<meta, rawExists, raw, dest, now, sync, norm, clean>>
    /\ UNCHANGED <<jobVars, actVars, streamVars, qrep, createTable, wait>>

\* A DropFlow that goes on to the destination cleanup whatever
\* PullFlowCleanup returned.
DropPullFlowCleanupUnchecked(err) ==
    /\ drop.pc = "pull"
    /\ drop' = [drop EXCEPT !.pc = "sync", !.srcCleaned = (err = "nil")]
    /\ UNCHANGED <<cdcVars, jobVars, actVars, streamVars, qrep, createTable, wait>>

\* Lines 633-636: PullFlowCleanup returns.
DropPullFlowCleanup(err) ==
    /\ drop.pc = "pull"
    /\ drop' = IF err # "nil"
               THEN [DropIdle EXCEPT !.ret = "failed to cleanup source"]
               ELSE [drop EXCEPT !.pc = "sync", !.srcCleaned = TRUE]
    /\ UNCHANGED <<cdcVars, jobVars, actVars, streamVars, qrep, createTable, wait>>

\* Line 637: SyncFlowCleanup is called and takes its first step.
DropSyncFlowCleanup ==
    /\ drop.pc = "sync"
    /\ ret.op # "cleanup"
    /\ \/ CleanDrop
       \/ CleanFail("idle")

\* Lines 637-641: SyncFlowCleanup has returned and DropFlow returns.
DropReturn ==
    /\ drop.pc = "sync"
    /\ clean.pc = "idle"
    /\ ret.op = "cleanup"
    /\ drop' = [drop EXCEPT !.pc = "idle",
                            !.ret = IF ret.st = "ok" THEN "nil"
                                    ELSE "failed to cleanup destination"]
    /\ UNCHANGED <<cdcVars, jobVars, actVars, streamVars, qrep, createTable, wait>>

(***************************************************************************)
(* QRepWaitUntilNewRows (flowable.go lines 659-693).  The outcomes of      *)
(* obtaining the connector and of CheckForUpdatedMaxValue are inputs.  The *)
(* activity itself never reads the cancellation of its context: it learns  *)
(* of it through the calls it makes with the context.  attemptCount only   *)
(* numbers the heartbeat messages: it stops counting at MaxAttempts.       *)
(***************************************************************************)
\* A QRepWaitUntilNewRows that checks before it sleeps.
WaitStartChecking(pg, seconds, err) ==
    /\ wait.pc = "idle"
    /\ wait' = IF ~pg
               THEN [WaitIdle EXCEPT !.pc = "returned", !.ret = "nil"]
               ELSE IF err
               THEN [WaitIdle EXCEPT !.pc = "returned", !.pg = TRUE,
                        !.ret = "failed to get qrep source connector"]
               ELSE [WaitIdle EXCEPT !.pc = "check", !.pg = TRUE,
                        !.waitBetweenBatches =
                            IF seconds > 0 THEN seconds
                            ELSE defaultWaitBetweenBatches]
    /\ UNCHANGED <<cdcVars, jobVars, actVars, streamVars, qrep, createTable, drop>>

\* Lines 659-677: the source type, the wait between checks, the connector.
WaitStart(pg, seconds, err) ==
    /\ wait.pc = "idle"
    /\ wait' = IF ~pg
               THEN [WaitIdle EXCEPT !.pc = "returned", !.ret = "nil"]
               ELSE IF err
               THEN [WaitIdle EXCEPT !.pc = "returned", !.pg = TRUE,
                        !.ret = "failed to get qrep source connector"]
               ELSE [WaitIdle EXCEPT !.pc = "sleep", !.pg = TRUE,
                        !.waitBetweenBatches =
                            IF seconds > 0 THEN seconds
                            ELSE defaultWaitBetweenBatches]
    /\ UNCHANGED <<cdcVars, jobVars, actVars, streamVars, qrep, createTable, drop>>

\* Lines 679-680: RecordHeartbeat and time.Sleep(waitBetweenBatches).
WaitSleep ==
    /\ wait.pc = "sleep"
    /\ wait' = [wait EXCEPT !.pc = "check", !.slept = TRUE]
    /\ UNCHANGED <<cdcVars, jobVars, actVars, streamVars, qrep, createTable, drop>>

\* What CheckForUpdatedMaxValue of the source connector can return.  The
\* connector was obtained with the context of the activity and runs its
\* query on it: once the context is cancelled the query fails.
CheckForUpdatedMaxValue(cancelled) ==
    IF cancelled
    THEN {[result |-> FALSE, err |-> TRUE]}
    ELSE {[result |-> TRUE, err |-> FALSE], [result |-> FALSE, err |-> FALSE],
          [result |-> FALSE, err |-> TRUE]}

\* A check whose outcome does not depend on the cancellation.
WaitCheckDetached(result, err) ==
    /\ wait.pc = "check"
    /\ [result |-> result, err |-> err] \in CheckForUpdatedMaxValue(FALSE)
    /\ wait' = IF err
               THEN [wait EXCEPT !.pc = "returned", !.checked = TRUE,
                        !.slept = FALSE, !.newRows = FALSE,
                        !.ret = "failed to check for new rows"]
               ELSE IF result
               THEN [wait EXCEPT !.pc = "returned", !.checked = TRUE,
                        !.slept = FALSE, !.newRows = TRUE, !.ret = "nil"]
               ELSE [wait EXCEPT !.pc = "sleep", !.checked = TRUE,
                        !.slept = FALSE, !.newRows = FALSE,
                        !.attemptCount = Min2(@ + 1, MaxAttempts)]
    /\ UNCHANGED <<cdcVars, jobVars, actVars, streamVars, qrep, createTable, drop>>

\* Lines 682-690: CheckForUpdatedMaxValue and what the loop does with it.
WaitCheck(result, err) ==
    /\ wait.pc = "check"
    /\ [result |-> result, err |-> err] \in CheckForUpdatedMaxValue(wait.cancelled)
    /\ wait' = IF err
               THEN [wait EXCEPT !.pc = "returned", !.checked = TRUE,
                        !.slept = FALSE, !.newRows = FALSE,
                        !.ret = "failed to check for new rows"]
               ELSE IF result
               THEN [wait EXCEPT !.pc = "returned", !.checked = TRUE,
                        !.slept = FALSE, !.newRows = TRUE, !.ret = "nil"]
               ELSE [wait EXCEPT !.pc = "sleep", !.checked = TRUE,
                        !.slept = FALSE, !.newRows = FALSE,
                        !.attemptCount = Min2(@ + 1, MaxAttempts)]
    /\ UNCHANGED <<cdcVars, jobVars, actVars, streamVars, qrep, createTable, drop>>

\* The cancellation of the activity is requested: ctx is cancelled.
WaitCancel ==
    /\ wait.pc \in {"sleep", "check"}
    /\ ~wait.cancelled
    /\ wait' = [wait EXCEPT !.cancelled = TRUE]
    /\ UNCHANGED <<cdcVars, jobVars, actVars, streamVars, qrep, createTable, drop>>

(***************************************************************************)
(* SetupNormalizedTable (snowflake.go lines 288-317): the table is created *)
(* from the source schema unless it exists.                                *)
(***************************************************************************)
SetupNormalizedTable(schema, err) ==
    /\ IF err \in {"error while parsing table schema and name",
                   "error occured while checking if normalized table exists"}
       THEN createTable' = [createTable EXCEPT !.ret = err]
       ELSE IF createTable.exists
       THEN createTable' = [createTable EXCEPT !.ret = "AlreadyExists"]
       ELSE IF err = "error while creating normalized table"
       THEN createTable' = [createTable EXCEPT !.ret = err]
       ELSE createTable' =
               [exists |-> TRUE, schema |-> schema,
                columns |-> generateCreateTableSQLForNormalizedTable(schema),
                ret |-> "Created"]
    /\ UNCHANGED <<cdcVars, jobVars, actVars, streamVars, qrep, drop, wait>>

(***************************************************************************)
(* Several jobs on one destination.  Every call runs from begin to return  *)
(* without another call in between; the raw table of a job is the one      *)
(* getRawTableIdentifier names, its metadata rows are the ones whose       *)
(* MIRROR_JOB_NAME is the job name.                                        *)
(***************************************************************************)
JobRet(op, job, st) == [op |-> op, job |-> job, st |-> st]

\* Lines 535-560: CREATE TABLE IF NOT EXISTS of the job's raw table.
JobCreateRawTable(job) ==
    /\ rawTables' = [rawTables EXCEPT ![getRawTableIdentifier(job)].exists = TRUE]
    /\ jobRet' = JobRet("create", job, "ok")
    /\ UNCHANGED <<cdcVars, actVars, streamVars, qrep, otherVars>>
    /\ UNCHANGED mirrorJobs

\* Lines 329-462: SyncRecords of the job, to its return.
JobSyncRecords(job, records, lastCP) ==
    LET id == getRawTableIdentifier(job)
        m == mirrorJobs[job]
    IN
    /\ FirstBadRecord(records) = 0
    /\ \E last \in LastSyncBatchIDs(m) :
          /\ last < MaxBatchID
          /\ LET syncBatchID == NextSyncBatchID(last)
                 rows == BuildRows(records, [i \in 1..Len(records) |-> now],
                                   syncBatchID)
             IN IF Len(records) = 0
                THEN /\ jobRet' = JobRet("sync", job, "ok")
                     /\ UNCHANGED <<mirrorJobs, rawTables>>
                ELSE IF ~rawTables[id].exists
                THEN /\ jobRet' = JobRet("sync", job, "err")
                     /\ UNCHANGED <<mirrorJobs, rawTables>>
                ELSE /\ rawTables' = [rawTables EXCEPT ![id].rows = @ \o rows]
                     /\ mirrorJobs' =
                           [mirrorJobs EXCEPT ![job] =
                               ApplySyncMetadata(m,
                                   IF jobMetadataExists(m) THEN "update" ELSE "insert",
                                   lastCP, syncBatchID)]
                     /\ jobRet' = JobRet("sync", job, "ok")
    /\ UNCHANGED <<cdcVars, actVars, streamVars, qrep, otherVars>>

\* Lines 465-533: NormalizeRecords of the job, to its return.
JobNormalizeRecords(job) ==
    LET id == getRawTableIdentifier(job)
        m == mirrorJobs[job]
    IN
    /\ \E syncBatchID \in LastSyncBatchIDs(m) :
       \E normalizeBatchID \in LastNormalizeBatchIDs(m) :
          LET tables == DistinctTableNames(rawTables[id].rows,
                                           normalizeBatchID, syncBatchID)
          IN IF syncBatchID = normalizeBatchID
             THEN /\ jobRet' = JobRet("normalize", job, "ok")
                  /\ UNCHANGED <<mirrorJobs, dest>>
             ELSE IF \/ ~jobMetadataExists(m)
                     \/ ~rawTables[id].exists
                     \/ MergeAllFails(dest, rawTables[id].rows, tables,
                                      normalizeBatchID, syncBatchID)
             THEN /\ jobRet' = JobRet("normalize", job, "err")
                  /\ UNCHANGED <<mirrorJobs, dest>>
             ELSE /\ dest' = MergeAll(dest, rawTables[id].rows, tables,
                                      normalizeBatchID, syncBatchID)
                  /\ mirrorJobs' =
                        [mirrorJobs EXCEPT ![job] =
                            ApplyNormalizeMetadata(m, syncBatchID)]
                  /\ jobRet' = JobRet("normalize", job, "ok")
    /\ UNCHANGED <<meta, rawExists, raw, now, sync, norm, clean, ret, pre>>
    /\ UNCHANGED <<rawTables, actVars, streamVars, qrep, otherVars>>

\* Lines 580-607: SyncFlowCleanup of the job, to its return.
JobSyncFlowCleanup(job) ==
    /\ rawTables' = [rawTables EXCEPT ![getRawTableIdentifier(job)] = NoTable]
    /\ mirrorJobs' = [mirrorJobs EXCEPT ![job] = <<>>]
    /\ jobRet' = JobRet("cleanup", job, "ok")
    /\ UNCHANGED <<cdcVars, actVars, streamVars, qrep, otherVars>>

(***************************************************************************)
(* Activities that need a capability of the destination peer.  get is what *)
(* obtaining the capability gave; the other inputs are what the calls the  *)
(* activity makes return.  destCalls collects the methods the activity     *)
(* called on a connector of the destination.                               *)
(***************************************************************************)
ActRet(op, get, err, res) == [op |-> op, get |-> get, err |-> err, res |-> res]

\* What NormalizeRecords returns when normalize has caught up with sync or
\* the job has no metadata: Done alone is set.
NothingPendingResponse == [nil |-> FALSE, done |-> TRUE, start |-> 0, end |-> 0]

\* What NormalizeRecords can return to StartNormalize.
NormalizeResponses ==
    {[nil |-> FALSE, done |-> FALSE, start |-> b, end |-> b] : b \in 0..MaxBatchID}
    \cup {NothingPendingResponse}
    \cup {[nil |-> FALSE, done |-> TRUE, start |-> n + 1, end |-> e] :
             n \in 0..MaxBatchID, e \in 1..MaxBatchID}

\* What InitializeTableSchema and NormalizeRecords give StartNormalize.
NormalizeOutcomes ==
    {[err |-> e, res |-> NilResponse] : e \in {"init", "normalize"}}
    \cup {[err |-> "nil", res |-> r] : r \in NormalizeResponses}

\* CatalogMirrorMonitor.UpdateEndTimeForCDCBatch
UpdateEndTimeForCDCBatch(c, batchID) == [c EXCEPT !.cdcEnd = @ \cup {batchID}]

\* CatalogMirrorMonitor.UpdateEndTimeForQRepRun
UpdateEndTimeForQRepRun(c) == [c EXCEPT !.qrepEnd = TRUE]

\* Lines 312-376.
StartNormalize(get, syncGet, batchIDErr, lastSyncBatchID, outcome, monitorErr) ==
    /\ IF get = "ErrUnsupportedFunctionality"
       THEN IF syncGet # "nil"
            THEN /\ destCalls' = {}
                 /\ actRet' = ActRet("StartNormalize", get, "failed to get connector", NilResponse)
                 /\ UNCHANGED catalog
            ELSE IF batchIDErr
            THEN /\ destCalls' = {"GetLastSyncBatchID"}
                 /\ actRet' = ActRet("StartNormalize", get,
                                     "failed to get last sync batch ID", NilResponse)
                 /\ UNCHANGED catalog
            ELSE /\ destCalls' = {"GetLastSyncBatchID"}
                 /\ catalog' = IF monitorErr THEN catalog
                               ELSE UpdateEndTimeForCDCBatch(catalog, lastSyncBatchID)
                 /\ actRet' = ActRet("StartNormalize", get,
                                     IF monitorErr THEN "monitor" ELSE "nil", NilResponse)
       ELSE IF get # "nil"
       THEN /\ destCalls' = {}
            /\ actRet' = ActRet("StartNormalize", get, get, NilResponse)
            /\ UNCHANGED catalog
       ELSE IF outcome.err = "init"
       THEN /\ destCalls' = {"InitializeTableSchema"}
            /\ actRet' = ActRet("StartNormalize", get,
                                "failed to initialize table schema", NilResponse)
            /\ UNCHANGED catalog
       ELSE IF outcome.err = "normalize"
       THEN /\ destCalls' = {"InitializeTableSchema", "NormalizeRecords"}
            /\ actRet' = ActRet("StartNormalize", get,
                                "failed to normalized records", NilResponse)
            /\ UNCHANGED catalog
       ELSE /\ destCalls' = {"InitializeTableSchema", "NormalizeRecords"}
            /\ IF outcome.res.done
               THEN IF monitorErr
                    THEN /\ actRet' = ActRet("StartNormalize", get, "monitor", NilResponse)
                         /\ UNCHANGED catalog
                    ELSE /\ actRet' = ActRet("StartNormalize", get, "nil", outcome.res)
                         /\ catalog' = UpdateEndTimeForCDCBatch(catalog, outcome.res.end)
               ELSE /\ actRet' = ActRet("StartNormalize", get, "nil", outcome.res)
                    /\ UNCHANGED catalog
    /\ UNCHANGED <<cdcVars, jobVars, streamVars, qrep, otherVars>>

\* A ReplayTableSchemaDeltas that hands the error of the missing capability
\* to its caller.
ReplayReportsUnsupported(get, destErr) ==
    /\ IF get # "nil"
       THEN /\ destCalls' = {}
            /\ actRet' = ActRet("ReplayTableSchemaDeltas", get, get, NilResponse)
       ELSE /\ destCalls' = {"ReplayTableSchemaDeltas"}
            /\ actRet' = ActRet("ReplayTableSchemaDeltas", get,
                                IF destErr THEN "replay" ELSE "nil", NilResponse)
    /\ UNCHANGED <<cdcVars, jobVars, streamVars, qrep, catalog, otherVars>>

\* Lines 378-391.
ReplayTableSchemaDeltas(get, destErr) ==
    /\ IF get = "ErrUnsupportedFunctionality"
       THEN /\ destCalls' = {}
            /\ actRet' = ActRet("ReplayTableSchemaDeltas", get, "nil", NilResponse)
       ELSE IF get # "nil"
       THEN /\ destCalls' = {}
            /\ actRet' = ActRet("ReplayTableSchemaDeltas", get, get, NilResponse)
       ELSE /\ destCalls' = {"ReplayTableSchemaDeltas"}
            /\ actRet' = ActRet("ReplayTableSchemaDeltas", get,
                                IF destErr THEN "replay" ELSE "nil", NilResponse)
    /\ UNCHANGED <<cdcVars, jobVars, streamVars, qrep, catalog, otherVars>>

\* Lines 583-607.
ConsolidateQRepPartitions(get, destErr, monitorErr) ==
    /\ IF get = "ErrUnsupportedFunctionality"
       THEN /\ destCalls' = {}
            /\ catalog' = IF monitorErr THEN catalog
                          ELSE UpdateEndTimeForQRepRun(catalog)
            /\ actRet' = ActRet("ConsolidateQRepPartitions", get,
                                IF monitorErr THEN "monitor" ELSE "nil", NilResponse)
       ELSE IF get # "nil"
       THEN /\ destCalls' = {}
            /\ actRet' = ActRet("ConsolidateQRepPartitions", get, get, NilResponse)
            /\ UNCHANGED catalog
       ELSE IF destErr
       THEN /\ destCalls' = {"ConsolidateQRepPartitions"}
            /\ actRet' = ActRet("ConsolidateQRepPartitions", get, "consolidate", NilResponse)
            /\ UNCHANGED catalog
       ELSE /\ destCalls' = {"ConsolidateQRepPartitions"}
            /\ catalog' = IF monitorErr THEN catalog
                          ELSE UpdateEndTimeForQRepRun(catalog)
            /\ actRet' = ActRet("ConsolidateQRepPartitions", get,
                                IF monitorErr THEN "monitor" ELSE "nil", NilResponse)
    /\ UNCHANGED <<cdcVars, jobVars, streamVars, qrep, otherVars>>

\* Lines 609-618.
CleanupQRepFlow(get, destErr) ==
    /\ IF get = "ErrUnsupportedFunctionality"
       THEN /\ destCalls' = {}
            /\ actRet' = ActRet("CleanupQRepFlow", get, "nil", NilResponse)
       ELSE IF get # "nil"
       THEN /\ destCalls' = {}
            /\ actRet' = ActRet("CleanupQRepFlow", get, get, NilResponse)
       ELSE /\ destCalls' = {"CleanupQRepFlow"}
            /\ actRet' = ActRet("CleanupQRepFlow", get,
                                IF destErr THEN "cleanup" ELSE "nil", NilResponse)
    /\ UNCHANGED <<cdcVars, jobVars, streamVars, qrep, catalog, otherVars>>

(***************************************************************************)
(* QRecordStream.  One goroutine writes the stream (SetSchema, then sends  *)
(* on Records), one reads it (Schema, then receives from Records).  A send *)
(* on a channel waits while the channel holds as many values as its        *)
(* capacity; on a channel of capacity 0 it waits for the receiver.         *)
(***************************************************************************)
Schemas == {"s1", "s2"}

\* What the schema channel carries is a QRecordSchemaOrError: a schema of
\* Schemas stands for the one SetSchema sends (Schema set, Err nil) and
\* ErrorItem for one with Err set and no schema.
ErrorItem == "err"

ItemSchema(item) == IF item = ErrorItem THEN Null ELSE item

ItemErr(item) == IF item = ErrorItem THEN "err" ELSE "nil"

\* A SetSchema that does not look at schemaSet.
SetSchemaUnchecked(schema) ==
    /\ producer.pc = "idle"
    /\ producer.setCalls < MaxSetSchema
    /\ producer' = [producer EXCEPT !.pc = "schema", !.arg = schema,
                                    !.setCalls = @ + 1]
    /\ UNCHANGED <<stream, consumer>>
    /\ UNCHANGED <<cdcVars, jobVars, actVars, qrep, otherVars>>

\* Lines 53-56: SetSchema is called; with schemaSet it returns an error.
SetSchema(schema) ==
    /\ producer.pc = "idle"
    /\ producer.setCalls < MaxSetSchema
    /\ IF stream.schemaSet
       THEN producer' = [producer EXCEPT !.ret = "Schema already set",
                                         !.setCalls = @ + 1]
       ELSE producer' = [producer EXCEPT !.pc = "schema", !.arg = schema,
                                         !.setCalls = @ + 1]
    /\ UNCHANGED <<stream, consumer>>
    /\ UNCHANGED <<cdcVars, jobVars, actVars, qrep, otherVars>>

\* Lines 58-62: the send on the schema channel, schemaSet = true, return nil.
SetSchemaSend ==
    /\ producer.pc = "schema"
    /\ Len(stream.schema) < 1
    /\ stream' = [stream EXCEPT !.schema = Append(@, producer.arg),
                                !.schemaSet = TRUE,
                                !.announced = Append(@, producer.arg)]
    /\ producer' = [producer EXCEPT !.pc = "idle", !.arg = Null, !.ret = "nil"]
    /\ UNCHANGED consumer
    /\ UNCHANGED <<cdcVars, jobVars, actVars, qrep, otherVars>>

\* A send on the channel that SchemaChan() hands out, by the writer of the
\* stream: the QRecordSchemaOrError that carries an error and no schema.
\* The send waits while the channel is full.
SchemaChanSend ==
    /\ producer.pc = "idle"
    /\ Len(stream.schema) < 1
    /\ stream' = [stream EXCEPT !.schema = Append(@, ErrorItem)]
    /\ UNCHANGED <<producer, consumer>>
    /\ UNCHANGED <<cdcVars, jobVars, actVars, qrep, otherVars>>

\* The reader notes what a Schema() call returned.
SchemaReturned(c, result) ==
    [c EXCEPT !.schemaCalls = @ + 1,
              !.first = IF c.schemaCalls = 0 THEN result ELSE @,
              !.last = result]

\* Lines 43-51: Schema returns the cached schema if there is one; otherwise
\* it receives from the schema channel, waiting while the channel is empty,
\* caches the schema of what it received and returns its schema and error.
Schema ==
    /\ consumer.schemaCalls < MaxSchemaCalls
    /\ IF stream.schemaCache # Null
       THEN /\ consumer' = SchemaReturned(consumer,
                                          SchemaResult(stream.schemaCache, "nil"))
            /\ UNCHANGED stream
       ELSE /\ Len(stream.schema) > 0
            /\ stream' = [stream EXCEPT
                             !.schemaCache = ItemSchema(Head(stream.schema)),
                             !.schema = Tail(@)]
            /\ consumer' = SchemaReturned(consumer,
                                SchemaResult(ItemSchema(Head(stream.schema)),
                                             ItemErr(Head(stream.schema))))
    /\ UNCHANGED producer
    /\ UNCHANGED <<cdcVars, jobVars, actVars, qrep, otherVars>>

\* The writer starts a send of a record on Records.
SendBegin(rec) ==
    /\ producer.pc = "idle"
    /\ producer.sent < MaxRecords
    /\ producer' = [producer EXCEPT !.pc = "records", !.arg = rec]
    /\ UNCHANGED <<stream, consumer>>
    /\ UNCHANGED <<cdcVars, jobVars, actVars, qrep, otherVars>>

\* The send completes: the channel has room.
SendDone ==
    /\ producer.pc = "records"
    /\ Len(stream.Records) < stream.capacity
    /\ stream' = [stream EXCEPT !.Records = Append(@, producer.arg)]
    /\ producer' = [producer EXCEPT !.pc = "idle", !.arg = Null, !.sent = @ + 1]
    /\ UNCHANGED consumer
    /\ UNCHANGED <<cdcVars, jobVars, actVars, qrep, otherVars>>

\* The reader takes the oldest record of the channel.
Receive ==
    /\ Len(stream.Records) > 0
    /\ stream' = [stream EXCEPT !.Records = Tail(@)]
    /\ consumer' = [consumer EXCEPT !.received = @ + 1]
    /\ UNCHANGED producer
    /\ UNCHANGED <<cdcVars, jobVars, actVars, qrep, otherVars>>

\* Capacity 0: the waiting send and the receive happen together.
Handoff ==
    /\ stream.capacity = 0
    /\ producer.pc = "records"
    /\ producer' = [producer EXCEPT !.pc = "idle", !.arg = Null, !.sent = @ + 1]
    /\ consumer' = [consumer EXCEPT !.received = @ + 1]
    /\ UNCHANGED stream
    /\ UNCHANGED <<cdcVars, jobVars, actVars, qrep, otherVars>>

(***************************************************************************)
(* replicateQRepPartition.  With a Postgres source the pull runs in a      *)
(* goroutine (pullPgRecords) next to the activity; with another source the *)
(* activity pulls before it syncs.  The errors and row counts of the calls *)
(* it makes are inputs.                                                    *)
(***************************************************************************)
QRepReturn(q, err) ==
    [q EXCEPT !.pc = "returned", !.ret = err, !.sawFailure = q.pullFailed]

\* Lines 478-513: start time, connectors, and the start of the goroutine.
QRepStart(pg, err) ==
    /\ qrep.pc = "idle"
    /\ qrep' = IF err # "nil"
               THEN QRepReturn(qrep, err)
               ELSE IF pg
               THEN [qrep EXCEPT !.pc = "sync", !.pg = TRUE, !.gpc = "pull"]
               ELSE [qrep EXCEPT !.pc = "pull", !.pg = FALSE]
    /\ UNCHANGED <<cdcVars, jobVars, actVars, streamVars, otherVars>>

\* Lines 507-515: the goroutine, PullQRepRecordStream.
QRepGoPull(n, err) ==
    /\ qrep.gpc = "pull"
    /\ qrep' = [qrep EXCEPT !.gpc = "monitor", !.numRecords = n,
                            !.goroutineErr = IF err THEN "pull" ELSE @,
                            !.pullFailed = @ \/ err]
    /\ UNCHANGED <<cdcVars, jobVars, actVars, streamVars, otherVars>>

\* Lines 516-521: the goroutine, UpdatePullEndTimeAndRowsForPartition and
\* wg.Done.
QRepGoMonitor(err) ==
    /\ qrep.gpc = "monitor"
    /\ qrep' = [qrep EXCEPT !.gpc = "done",
                            !.goroutineErr = IF err THEN "monitor" ELSE @,
                            !.pullFailed = @ \/ err]
    /\ UNCHANGED <<cdcVars, jobVars, actVars, streamVars, otherVars>>

\* Lines 524-543: PullQRepRecords, UpdatePullEndTimeAndRowsForPartition and
\* ToQRecordStream of a source that is not Postgres.
QRepPull(n, err) ==
    /\ qrep.pc = "pull"
    /\ qrep' = IF err \in {"failed to pull records", "monitor"}
               THEN QRepReturn([qrep EXCEPT !.pullFailed = TRUE], err)
               ELSE IF err # "nil"
               THEN QRepReturn(qrep, err)
               ELSE [qrep EXCEPT !.pc = "sync", !.numRecords = n]
    /\ UNCHANGED <<cdcVars, jobVars, actVars, streamVars, otherVars>>

\* Lines 554-557: SyncQRepRecords.
QRepSync(res, err) ==
    /\ qrep.pc = "sync"
    /\ qrep' = IF err
               THEN QRepReturn(qrep, "failed to sync records")
               ELSE [qrep EXCEPT !.pc = IF res = 0 THEN "end" ELSE "wait",
                                 !.res = res]
    /\ UNCHANGED <<cdcVars, jobVars, actVars, streamVars, otherVars>>

\* Lines 564-568: wg.Wait() and the test of goroutineErr, when res # 0.
QRepWait ==
    /\ qrep.pc = "wait"
    /\ qrep.pg => qrep.gpc = "done"
    /\ qrep' = IF qrep.goroutineErr # "nil"
               THEN QRepReturn(qrep, qrep.goroutineErr)
               ELSE [qrep EXCEPT !.pc = "end"]
    /\ UNCHANGED <<cdcVars, jobVars, actVars, streamVars, otherVars>>

\* Lines 574-579: UpdateEndTimeForPartition and return nil.
QRepEnd(err) ==
    /\ qrep.pc = "end"
    /\ qrep' = IF err
               THEN QRepReturn(qrep, "monitor")
               ELSE QRepReturn([qrep EXCEPT !.partEnd = TRUE], "nil")
    /\ UNCHANGED <<cdcVars, jobVars, actVars, streamVars, otherVars>>

(***************************************************************************)
(* Inputs.                                                                 *)
(***************************************************************************)
BatchesOf(R, len) == UNION {[1..n -> R] : n \in 0..len}

Checkpoints == 0..MaxCP

\* Records for the transaction protocol: one that is written, one of an
\* unsupported kind, one that json.Marshal rejects.
ProtocolRecords ==
    {InsertRecord("1", "a"), OtherRecord, InsertRecord("1", Unserialisable)}

\* Records for the MERGE: inserts, updates and deletes over two keys.
MergeRecords ==
    {InsertRecord("1", "a"), UpdateRecord("1", "b"), DeleteRecord("1"),
     InsertRecord("2", "a")}

(***************************************************************************)
(* Spec: the calls of one job run one after another (section 5: per flow   *)
(* job, CDC activities are strictly sequential); every call is still a     *)
(* sequence of steps, each of which can fail.                              *)
(***************************************************************************)
SyncSteps(w) ==
    \/ SyncInsertFail(w)
    \/ SyncInsert(w)
    \/ SyncMetadataFail(w)
    \/ SyncMetadata(w)
    \/ SyncCommitFail(w)
    \/ SyncCommit(w)

FlowSteps(w) ==
    \/ FlowAddBatchFail(w)
    \/ FlowAddBatch(w)
    \/ FlowNoRecords(w)
    \/ FlowSync(w)
    \/ FlowUpdateLSNFail(w)
    \/ FlowReturn(w)

NormSteps ==
    \/ NormReadNormalize
    \/ NormExists
    \/ NormTables
    \/ NormMerge
    \/ NormMetadata
    \/ NormCommit
    \/ \E pc \in {"read", "exists", "tables", "merge", "metadata", "commit"} :
          NormFail(pc, pc)

CleanSteps ==
    \/ CleanDelete
    \/ CleanCommit
    \/ \E pc \in {"delete", "commit"} : CleanFail(pc)

Next ==
    \/ \E records \in BatchesOf(ProtocolRecords, MaxLen) : \E lastCP \in Checkpoints :
          AllIdle /\ SyncRecords(1, records, lastCP)
    \/ \E records \in BatchesOf(ProtocolRecords, MaxLen) : \E lastCP \in Checkpoints :
          AllIdle /\ FlowPull(1, records, lastCP)
    \/ AllIdle /\ FlowPullFail(1)
    \/ \E soft \in BOOLEAN : AllIdle /\ NormReadSync(soft)
    \/ AllIdle /\ NormReadSyncFail
    \/ AllIdle /\ CleanDrop
    \/ AllIdle /\ CleanFail("idle")
    \/ AllIdle /\ CreateRawTable
    \/ SyncSteps(1)
    \/ FlowSteps(1)
    \/ NormSteps
    \/ CleanSteps

Spec == Init /\ [][Next]_vars

(***************************************************************************)
(* SpecMerge: SyncRecords and NormalizeRecords, one call after another,    *)
(* over records that exercise the MERGE.                                   *)
(***************************************************************************)
\* The wall clock of the host is set back between two calls (a clock
\* synchronisation step): time.Now().UnixNano() reads wall time, which is
\* not monotonic.
WallClockSetBack ==
    /\ AllIdle
    /\ now > 0
    /\ now' \in 0..(now - 1)
    /\ UNCHANGED <<meta, rawExists, raw, dest, sync, norm, clean, ret, pre,
                   extVars>>

NextMerge ==
    \/ \E records \in BatchesOf(MergeRecords, MaxMergeLen) :
          AllIdle /\ SyncRecords(1, records, 1)
    \/ WallClockSetBack
    \/ \E soft \in BOOLEAN : AllIdle /\ NormReadSync(soft)
    \/ AllIdle /\ NormReadSyncFail
    \/ SyncSteps(1)
    \/ NormSteps

\* The clock starts at 0, so that records read equal or different instants.
\* Destination tables as earlier mirrors left them: SyncFlowCleanup removes the
\* raw table and the metadata row and keeps the destination tables.
PriorTables ==
    {EmptyTable, [EmptyTable EXCEPT ![[id |-> "1", v |-> "a"]] = 1]}

InitMerge ==
    /\ meta = <<>>
    /\ rawExists = TRUE
    /\ raw = <<>>
    /\ dest \in [Tables -> PriorTables]
    /\ now = 0
    /\ sync = [w \in Workers |-> SyncIdle]
    /\ norm = NormIdle
    /\ clean = CleanIdle
    /\ ret = NoRet
    /\ pre = [meta |-> <<>>, rawExists |-> TRUE, raw |-> <<>>, dest |-> dest]
    /\ ExtInit

SpecMerge == InitMerge /\ [][NextMerge]_vars

(***************************************************************************)
(* SpecRecords: SyncRecords, one call after another, over batches with     *)
(* every kind of record, each record read at its checkpoint.               *)
(***************************************************************************)
\* The change stream of the source, and the batches pulled from it: the
\* runs of at most MaxMergeLen consecutive records.
CheckpointedRecords ==
    <<WithCheckPoint(InsertRecord("1", "a"), 1),
      WithCheckPoint(UpdateRecord("1", "b"), 2),
      WithCheckPoint(DeleteRecord("1"), 2),
      WithCheckPoint(OtherRecord, 1)>>

RecordBatches ==
    {SubSeq(CheckpointedRecords, p[1], p[2]) :
        p \in {q \in (1..Len(CheckpointedRecords)) \X (0..Len(CheckpointedRecords)) :
                  q[2] - q[1] < MaxMergeLen}}

NextRecords ==
    \/ \E records \in RecordBatches : \E lastCP \in 1..MaxCP :
          AllIdle /\ SyncRecords(1, records, lastCP)
    \/ SyncSteps(1)

SpecRecords == Init /\ [][NextRecords]_vars

(***************************************************************************)
(* SpecSetup: SetupNormalizedTable over the source schemas of TableSchemas *)
(* and every outcome of its statements.                                    *)
(***************************************************************************)
NextSetup ==
    \E schema \in TableSchemas :
    \E err \in {"nil", "error while parsing table schema and name",
                "error occured while checking if normalized table exists",
                "error while creating normalized table"} :
        SetupNormalizedTable(schema, err)

SpecSetup == Init /\ [][NextSetup]_vars

(***************************************************************************)
(* SpecDrop: SyncRecords and DropFlow of one job, one call after another.  *)
(***************************************************************************)
DropRecords == {<<InsertRecord("1", "a")>>}

NextDrop ==
    \/ \E records \in DropRecords :
          AllIdle /\ drop.pc = "idle" /\ SyncRecords(1, records, 1)
    \/ SyncSteps(1)
    \/ AllIdle /\ drop.pc = "idle" /\ CreateRawTable
    \/ \E srcGet \in {"nil", "other"} : \E dstGet \in {"nil", "other"} :
          AllIdle /\ DropStart(srcGet, dstGet)
    \/ \E err \in {"nil", "other"} : DropPullFlowCleanup(err)
    \/ DropSyncFlowCleanup
    \/ CleanSteps
    \/ DropReturn

SpecDrop == Init /\ [][NextDrop]_vars

(***************************************************************************)
(* SpecWait: one QRepWaitUntilNewRows.  SpecWaitFair: the activity is      *)
(* scheduled: a sleep that can end ends and a check that can be made is    *)
(* made.                                                                   *)
(***************************************************************************)
NextWait ==
    \/ \E pg \in BOOLEAN : \E seconds \in 0..MaxWaitSeconds :
       \E err \in BOOLEAN : WaitStart(pg, seconds, err)
    \/ WaitSleep
    \/ \E result \in BOOLEAN : \E err \in BOOLEAN : WaitCheck(result, err)
    \/ WaitCancel

SpecWait == Init /\ [][NextWait]_vars

SpecWaitFair ==
    /\ SpecWait
    /\ WF_vars(WaitSleep)
    /\ WF_vars(\E result \in BOOLEAN : \E err \in BOOLEAN : WaitCheck(result, err))

(***************************************************************************)
(* SpecOffset: SyncRecords with every last checkpoint, GetLastOffset and   *)
(* SyncFlowCleanup, one call after another.                                *)
(***************************************************************************)
NextOffset ==
    \/ \E records \in DropRecords : \E lastCP \in Checkpoints :
          AllIdle /\ SyncRecords(1, records, lastCP)
    \/ SyncSteps(1)
    \/ \E err \in BOOLEAN : AllIdle /\ GetLastOffset(err)
    \/ AllIdle /\ CleanDrop
    \/ CleanSteps
    \/ AllIdle /\ CreateRawTable

SpecOffset == Init /\ [][NextOffset]_vars

(***************************************************************************)
(* SpecConc: the executions interleave step by step: two SyncRecords       *)
(* executions of the job (an activity that was scheduled again while the   *)
(* original still runs), NormalizeRecords and SyncFlowCleanup.             *)
(***************************************************************************)
ConcRecords == {<<InsertRecord("1", "a")>>}

NextConc ==
    \/ \E w \in Workers : \E records \in ConcRecords : SyncRecords(w, records, 1)
    \/ \E w \in Workers : SyncSteps(w)
    \/ NormReadSync(FALSE)
    \/ NormSteps
    \/ CleanDrop
    \/ CleanSteps

SpecConc == Init /\ [][NextConc]_vars

(***************************************************************************)
(* SpecFlows: the StartFlow executions of the Workers on one job (a retry  *)
(* of the activity while the original still runs).                         *)
(***************************************************************************)
NextFlows ==
    \/ \E w \in Workers : \E records \in ConcRecords \cup {<<>>} :
          FlowPull(w, records, 1)
    \/ \E w \in Workers : FlowSteps(w)
    \/ \E w \in Workers : SyncSteps(w)

SpecFlows == Init /\ [][NextFlows]_vars

(***************************************************************************)
(* SpecJobs: the jobs of JobNames mirror to one destination, one call      *)
(* after another.                                                          *)
(***************************************************************************)
JobRecords == {<<>>, <<InsertRecord("1", "a")>>}

NextJobs ==
    \/ \E job \in JobNames : JobCreateRawTable(job)
    \/ \E job \in JobNames : \E records \in JobRecords :
          JobSyncRecords(job, records, 1)
    \/ \E job \in JobNames : JobNormalizeRecords(job)
    \/ \E job \in JobNames : JobSyncFlowCleanup(job)

SpecJobs == Init /\ [][NextJobs]_vars

(***************************************************************************)
(* SpecActivities: the activities that need a capability of the            *)
(* destination, one after another, with every outcome of the calls they    *)
(* make.                                                                   *)
(***************************************************************************)
NextActivities ==
    \/ \E get \in GetResults : \E syncGet \in {"nil", "other"} :
       \E batchIDErr \in BOOLEAN : \E lastSyncBatchID \in 0..MaxBatchID :
       \E outcome \in NormalizeOutcomes : \E monitorErr \in BOOLEAN :
          StartNormalize(get, syncGet, batchIDErr, lastSyncBatchID, outcome,
                         monitorErr)
    \/ \E get \in GetResults : \E destErr \in BOOLEAN :
          ReplayTableSchemaDeltas(get, destErr)
    \/ \E get \in GetResults : \E destErr \in BOOLEAN : \E monitorErr \in BOOLEAN :
          ConsolidateQRepPartitions(get, destErr, monitorErr)
    \/ \E get \in GetResults : \E destErr \in BOOLEAN :
          CleanupQRepFlow(get, destErr)

SpecActivities == Init /\ [][NextActivities]_vars

(***************************************************************************)
(* SpecStream: a stream of any capacity up to MaxBuffer, its writer and    *)
(* its reader.                                                             *)
(***************************************************************************)
NextStream ==
    \/ \E schema \in Schemas : SetSchema(schema)
    \/ SetSchemaSend
    \/ Schema
    \/ \E rec \in Vals : SendBegin(rec)
    \/ SendDone
    \/ Receive
    \/ Handoff

InitStream ==
    /\ CdcInit /\ JobsInit /\ ActivitiesInit /\ StreamInit(0..MaxBuffer)
    /\ qrep = QRepIdle
    /\ OtherInit

SpecStream == InitStream /\ [][NextStream]_vars

(***************************************************************************)
(* SpecSchema: the schema channel of a stream, with a writer that sets the *)
(* schema or sends an error on SchemaChan(), and a reader that calls       *)
(* Schema() up to MaxSchemaCalls times.                                    *)
(***************************************************************************)
NextSchema ==
    \/ \E schema \in Schemas : SetSchema(schema)
    \/ SetSchemaSend
    \/ SchemaChanSend
    \/ Schema

SpecSchema == InitStream /\ [][NextSchema]_vars

(***************************************************************************)
(* SpecQRep: one replicateQRepPartition, its goroutine running next to it. *)
(***************************************************************************)
NextQRep ==
    \/ \E pg \in BOOLEAN :
       \E err \in {"nil", "failed to update start time for partition",
                   "failed to get qrep source connector",
                   "failed to get qrep destination connector"} :
          QRepStart(pg, err)
    \/ \E n \in 0..MaxRecords : \E err \in BOOLEAN : QRepGoPull(n, err)
    \/ \E err \in BOOLEAN : QRepGoMonitor(err)
    \/ \E n \in 0..MaxRecords :
       \E err \in {"nil", "failed to pull records", "monitor",
                   "failed to convert to qrecord stream"} :
          QRepPull(n, err)
    \/ \E res \in 0..MaxRecords : \E err \in BOOLEAN : QRepSync(res, err)
    \/ QRepWait
    \/ \E err \in BOOLEAN : QRepEnd(err)

SpecQRep == Init /\ [][NextQRep]_vars

(***************************************************************************)
(* Properties.                                                             *)
(***************************************************************************)
Offsets(m) == {m[i].offset : i \in DOMAIN m}
SyncBatchIDs(m) == {m[i].syncBatchID : i \in DOMAIN m}

\* The call that returned last was SyncRecords (ret), and pre is the
\* committed state at its begin.
SyncReturned(st) == ret.op = "sync" /\ ret.st = st

\* C1: across SyncRecords calls the offset stored in the job's metadata row
\* never decreases.
OffsetNeverDecreases ==
    [][\A i \in DOMAIN meta \cap DOMAIN meta' :
          meta'[i].offset >= meta[i].offset]_vars

\* C1: a SyncRecords call returned success and the stored offset is smaller
\* than before the call.
OffsetDecreased ==
    /\ SyncReturned("ok")
    /\ pre.meta # <<>> /\ meta # <<>>
    /\ meta[1].offset < pre.meta[1].offset

\* C2: in every state, under any interleaving of SyncRecords,
\* NormalizeRecords and SyncFlowCleanup, normalize_batch_id <= sync_batch_id.
NormalizeAfterSync ==
    \A i \in DOMAIN meta : meta[i].normalizeBatchID <= meta[i].syncBatchID

\* C2: a metadata row whose normalize_batch_id exceeds its sync_batch_id.
NormalizeAheadOfSync ==
    \E i \in DOMAIN meta : meta[i].normalizeBatchID > meta[i].syncBatchID

\* C3 as stated: every SyncRecords call that returns success leaves the
\* stored sync_batch_id at exactly its previous value plus 1.
SuccessAdvancesSyncBatchID ==
    SyncReturned("ok") =>
        /\ meta # <<>>
        /\ SyncBatchIDs(meta) = {s + 1 : s \in LastSyncBatchIDs(pre.meta)}

\* C3: every SyncRecords call that returns success having written at least
\* one record leaves the stored sync_batch_id at exactly its previous value
\* plus 1; a call that wrote none returns success and leaves the metadata as
\* it was.
WrittenBatchAdvancesSyncBatchID ==
    SyncReturned("ok") =>
        IF ret.num > 0
        THEN /\ meta # <<>>
             /\ SyncBatchIDs(meta) = {s + 1 : s \in LastSyncBatchIDs(pre.meta)}
        ELSE meta = pre.meta

\* C3: a SyncRecords call on a job that has a metadata row returned success
\* having written records.
SecondBatchSynced ==
    SyncReturned("ok") /\ ret.num > 0 /\ pre.meta # <<>>

\* The steps at which SyncRecords can return an error.
SyncErrorSites == {"read", "record", "insert", "metadata", "commit"}

\* C4: if SyncRecords returns an error at any step, the raw table and the
\* job's metadata row are exactly as they were before the call.
SyncErrorLeavesStore ==
    (ret.st = "err" /\ ret.op \in {"sync", "flow"} /\ ret.at \in SyncErrorSites) =>
        /\ raw = pre.raw
        /\ meta = pre.meta
        /\ rawExists = pre.rawExists

\* C4: SyncRecords returned the error of its Commit, on a job that has a
\* metadata row and raw rows.
SyncCommitFailed ==
    /\ SyncReturned("err") /\ ret.at = "commit"
    /\ pre.meta # <<>> /\ pre.raw # <<>>

\* NormalizeRecords returned last, having merged the batches ret.start..ret.end;
\* pre is the committed state at its begin.
Normalized == ret.op = "normalize" /\ ret.st = "ok" /\ ret.worked

\* The raw rows the returned NormalizeRecords merged into table "t".
Window == InWindow(raw, "t", ret.start - 1, ret.end)

EventsOfKey(k) == {i \in Window : Flattened(raw, i).id = k}

\* The raw rows of key k in the window that carry its greatest timestamp.
LatestOfKey(k) ==
    {i \in EventsOfKey(k) :
        \A j \in EventsOfKey(k) : raw[j].timestamp <= raw[i].timestamp}

\* C5: after NormalizeRecords succeeds, for every primary key with a raw row
\* in the window the destination row equals the data of the raw row with
\* the greatest timestamp, and there is no row if that raw row is a delete.
LastWriterWins ==
    Normalized =>
        \A k \in Keys :
            EventsOfKey(k) # {} =>
                \E i \in LatestOfKey(k) :
                    IF raw[i].recordType = 2
                    THEN CountOfKey(dest["t"], k) = 0
                    ELSE /\ CountOfKey(dest["t"], k) = 1
                         /\ dest["t"][[id |-> k, v |-> Flattened(raw, i).v]] = 1

\* C5: NormalizeRecords succeeded and the destination holds two rows of one
\* primary key.
TwoRowsOfOneKey ==
    Normalized /\ \E k \in Keys : CountOfKey(dest["t"], k) > 1

\* What SyncRecords was given for a raw row: the row without the timestamp
\* and the batch id of the call.
Payload(r) == [r EXCEPT !.timestamp = 0, !.batchID = 0]

BatchRows(b) == SelectSeq(raw, LAMBDA r : r.batchID = b)

\* Batches b1 and b2 were written from the same input.
SameInput(b1, b2) ==
    /\ Len(BatchRows(b1)) = Len(BatchRows(b2))
    /\ Len(BatchRows(b1)) > 0
    /\ \A i \in 1..Len(BatchRows(b1)) :
          Payload(BatchRows(b1)[i]) = Payload(BatchRows(b2)[i])

\* The destination after SyncRecords(B) once and NormalizeRecords, for the
\* batch B written as batch ret.start.
NormalizedOnce ==
    MergeAll(pre.dest, raw, DistinctTableNames(raw, ret.start - 1, ret.start),
             ret.start - 1, ret.start)

OnceFails ==
    MergeAllFails(pre.dest, raw, DistinctTableNames(raw, ret.start - 1, ret.start),
                  ret.start - 1, ret.start)

SyncedTwice == Normalized /\ ret.end = ret.start + 1 /\ SameInput(ret.start, ret.end)

\* C6: SyncRecords(B) twice and then NormalizeRecords once yields the same
\* destination rows as SyncRecords(B) once and then NormalizeRecords once.
ReplayIdempotent ==
    (SyncedTwice /\ ~OnceFails) => dest = NormalizedOnce

\* C6: a batch was synced twice and normalized, and the destination differs
\* from the one after a single sync.
ReplayDiffers == SyncedTwice /\ ~OnceFails /\ dest # NormalizedOnce

\* The batch NormalizeRecords merged is a retry of the batch before it, which
\* was already normalized.
RetryNormalized ==
    /\ Normalized
    /\ ret.start = ret.end /\ ret.end >= 2
    /\ SameInput(ret.end - 1, ret.end)

\* C7: if an already committed (and normalized) batch is synced again as a
\* retry and NormalizeRecords then runs, the destination rows equal the rows
\* without the retry.
RetryLeavesDestination == RetryNormalized => dest = pre.dest

\* C7: a retried batch was normalized and the destination changed.
RetryChangedDestination == RetryNormalized /\ dest # pre.dest

\* The latest event of key k in the window is a delete, and the destination
\* had a row of k.
DeletedLast(k) ==
    /\ EventsOfKey(k) # {}
    /\ \A i \in LatestOfKey(k) : raw[i].recordType = 2
    /\ CountOfKey(pre.dest["t"], k) > 0

\* A stored sync_batch_id (and the offset stored with it) has its batch's raw
\* rows committed in the raw table.
OffsetStoredWithRows ==
    meta # <<>> =>
        /\ rawExists
        /\ \A i \in DOMAIN meta :
              \E j \in DOMAIN raw : raw[j].batchID = meta[i].syncBatchID

\* A step that stores a new offset is the Commit of a SyncRecords transaction
\* that appends the rows of that batch.
OffsetChangesAtCommit ==
    (/\ meta' # <<>>
     /\ \/ Len(meta') > Len(meta)
        \/ \E i \in DOMAIN meta \cap DOMAIN meta' :
              meta'[i].offset # meta[i].offset)
    => \E w \in Workers :
          /\ sync[w].pc = "sync_commit"
          /\ sync'[w].pc # "sync_commit"
          /\ Len(sync[w].rows) > 0
          /\ raw' = raw \o sync[w].rows
          /\ \A j \in DOMAIN sync[w].rows :
                sync[w].rows[j].batchID = sync[w].syncBatchID
          /\ \A i \in DOMAIN meta' :
                /\ meta'[i].offset = sync[w].lastCP
                /\ meta'[i].syncBatchID = sync[w].syncBatchID

\* C8: the stored offset changes only at the commit of a SyncRecords
\* transaction that also holds that batch's raw rows; in every state an
\* offset is stored only if the raw rows of its batch are committed.
OffsetOnlyWithRows == []OffsetStoredWithRows /\ [][OffsetChangesAtCommit]_vars

\* C8: an offset is stored and the raw rows of its batch are in no raw table.
OffsetWithoutRows ==
    /\ meta # <<>>
    /\ \E i \in DOMAIN meta : meta[i].offset > 0
    /\ ~rawExists
    /\ raw = <<>>

\* C9: whenever StartFlow returns an error, the stored offset and
\* sync_batch_id are the same as before the activity started.
FlowErrorKeepsOffset ==
    (ret.op = "flow" /\ ret.st = "err") =>
        /\ Offsets(meta) = Offsets(pre.meta)
        /\ SyncBatchIDs(meta) = SyncBatchIDs(pre.meta)

\* C9: StartFlow returned an error and the stored sync_batch_id advanced.
FlowErrorAfterCommit ==
    /\ ret.op = "flow" /\ ret.st = "err"
    /\ SyncBatchIDs(meta) # SyncBatchIDs(pre.meta)

\* C10: when NormalizeRecords runs with soft_delete and the latest event of
\* a primary key present in the destination is a delete, the destination
\* row is kept with its columns unchanged.
SoftDeleteKeepsRow ==
    (Normalized /\ ret.soft) =>
        \A k \in Keys :
            DeletedLast(k) =>
                \A r \in RowsOfKey(k) : dest["t"][r] = pre.dest["t"][r]

\* C10: NormalizeRecords ran with soft_delete and a row whose latest event
\* is a delete is gone from the destination.
SoftDeletedRowRemoved ==
    /\ Normalized /\ ret.soft
    /\ \E k \in Keys : DeletedLast(k) /\ CountOfKey(dest["t"], k) = 0

\* C11: in every state the mirror-jobs metadata table holds at most one row
\* of the job, also when two SyncRecords executions of the job interleave on
\* a job that has no metadata row yet.
OneMetadataRow == Len(meta) <= 1

\* C11: the metadata table holds two rows of the job.
TwoMetadataRows == Len(meta) = 2

\* C12: a SyncRecords, NormalizeRecords or SyncFlowCleanup call of one job
\* leaves the raw table and the metadata rows of every other job as they were.
JobsAreDisjoint ==
    [][jobRet'.op \in {"sync", "normalize", "cleanup"} =>
          \A B \in JobNames \ {jobRet'.job} :
              /\ rawTables'[getRawTableIdentifier(B)] =
                    rawTables[getRawTableIdentifier(B)]
              /\ mirrorJobs'[B] = mirrorJobs[B]]_vars

\* C12: SyncRecords of one job has written its rows into the raw table that
\* holds the rows of another job.
JobsShareRawTable ==
    \E A \in JobNames : \E B \in JobNames \ {A} :
        /\ getRawTableIdentifier(A) = getRawTableIdentifier(B)
        /\ jobRet = JobRet("sync", A, "ok")
        /\ mirrorJobs[A] # <<>>
        /\ mirrorJobs[B] # <<>>
        /\ Len(rawTables[getRawTableIdentifier(B)].rows) = 2

\* C13: when SyncFlowCleanup returns success the raw table does not exist and
\* the job has no metadata row; when it returns an error the metadata rows
\* and the raw table are as they were before the call.
CleanupAllOrNothing ==
    /\ (ret.op = "cleanup" /\ ret.st = "ok") => (~rawExists /\ meta = <<>>)
    /\ (ret.op = "cleanup" /\ ret.st = "err") =>
          /\ meta = pre.meta
          /\ rawExists = pre.rawExists
          /\ raw = pre.raw

\* C13: SyncFlowCleanup returned the error of its DELETE on a job that had a
\* metadata row and raw rows: the row is still there, the raw table is not.
CleanupHalfDone ==
    /\ ret = Err("cleanup", "delete")
    /\ pre.meta # <<>>
    /\ pre.raw # <<>>
    /\ meta = pre.meta
    /\ ~rawExists

\* The methods with which a destination normalizes, replays schema changes,
\* consolidates or cleans up.
CapabilityCalls ==
    {"InitializeTableSchema", "NormalizeRecords", "ReplayTableSchemaDeltas",
     "ConsolidateQRepPartitions", "CleanupQRepFlow"}

\* C14: when obtaining the capability gave ErrUnsupportedFunctionality, the
\* activity has called no normalize, replay, consolidate or cleanup method of
\* the destination, and the error it returns (if any) is the error of
\* another call it made, never the missing capability.
UnsupportedIsNoOp ==
    actRet.get = "ErrUnsupportedFunctionality" =>
        /\ destCalls \cap CapabilityCalls = {}
        /\ actRet.err \in {"nil", "monitor", "failed to get connector",
                           "failed to get last sync batch ID"}
        /\ actRet.op \in {"ReplayTableSchemaDeltas", "CleanupQRepFlow"} =>
              actRet.err = "nil"

\* C14: two activities have met a missing capability and returned without
\* error: StartNormalize recorded the end time of a batch and
\* ConsolidateQRepPartitions the end time of the run.
UnsupportedSkipped ==
    /\ actRet.get = "ErrUnsupportedFunctionality"
    /\ actRet.op = "ConsolidateQRepPartitions"
    /\ actRet.err = "nil"
    /\ destCalls = {}
    /\ catalog.qrepEnd
    /\ catalog.cdcEnd # {}

\* C15: on a stream SetSchema puts at most one schema on the schema channel,
\* and every SetSchema call made once the schema is set returns an error and
\* leaves the stream (schema channel, cached schema, flag) as it was.
SchemaSetOnce ==
    /\ [](Len(stream.announced) <= 1)
    /\ [][(stream.schemaSet /\ producer'.setCalls > producer.setCalls) =>
             /\ producer'.ret = "Schema already set"
             /\ producer'.pc = "idle"
             /\ stream' = stream]_vars

\* C15: a second SetSchema call returned the error after the reader had
\* received the schema of the first.
SecondSetSchemaRefused ==
    /\ producer.ret = "Schema already set"
    /\ producer.setCalls = 2
    /\ Len(stream.announced) = 1
    /\ stream.schemaCache = stream.announced[1]
    /\ stream.schema = <<>>

\* C16: the Records channel never holds more records than the capacity given
\* to NewQRecordStream, and a writer whose send found the channel full leaves
\* the send only in a step in which the reader takes a record.
RecordsBounded ==
    /\ [](Len(stream.Records) <= stream.buffer)
    /\ [][(/\ producer.pc = "records"
           /\ Len(stream.Records) >= stream.buffer
           /\ producer'.pc # "records") =>
             consumer'.received = consumer.received + 1]_vars

\* C16: the channel of the greatest capacity is full and the writer waits in
\* a send.
WriterWaits ==
    /\ stream.buffer = MaxBuffer
    /\ Len(stream.Records) = stream.buffer
    /\ producer.pc = "records"

\* C17: when the pull side had failed (PullQRepRecordStream or recording the
\* pull end time and rows returned an error) by the time
\* replicateQRepPartition returned, it returned an error and did not record
\* the partition as replicated, whatever row count the sync returned.
PullFailureReturned ==
    (qrep.pc = "returned" /\ qrep.sawFailure) =>
        /\ qrep.ret # "nil"
        /\ ~qrep.partEnd

\* C17: the goroutine pulled an empty partition, recording the pull end time
\* failed and the goroutine ended; the sync then returned 0 rows and the
\* activity returned nil with the partition recorded as replicated.
PullFailureLost ==
    /\ qrep.pc = "returned"
    /\ qrep.pg
    /\ qrep.gpc = "done"
    /\ qrep.goroutineErr = "monitor"
    /\ qrep.sawFailure
    /\ qrep.numRecords = 0
    /\ qrep.res = 0
    /\ qrep.ret = "nil"
    /\ qrep.partEnd

\* C18: when NormalizeRecords returns success after doing work, the stored
\* normalize_batch_id is the sync_batch_id it read at its start and every
\* destination table holds the result of its MERGE over the batch window;
\* when it returns an error, the metadata rows and every destination table
\* are as they were before the call.
NormalizeAllOrNothing ==
    /\ (ret.op = "normalize" /\ ret.st = "ok" /\ ret.worked) =>
          /\ meta # <<>>
          /\ \A i \in DOMAIN meta : meta[i].normalizeBatchID = ret.end
          /\ ret.end \in LastSyncBatchIDs(pre.meta)
          /\ dest = MergeAll(pre.dest, pre.raw,
                             DistinctTableNames(pre.raw, ret.start - 1, ret.end),
                             ret.start - 1, ret.end)
    /\ (ret.op = "normalize" /\ ret.st = "err") =>
          /\ meta = pre.meta
          /\ dest = pre.dest

\* C18: a NormalizeRecords that merged a batch into an empty destination table
\* has returned success.
NormalizeCommitted ==
    /\ ret.op = "normalize" /\ ret.st = "ok" /\ ret.worked
    /\ dest # pre.dest
    /\ ret.end > 0

\* C19: every committed raw row is in the window of exactly one successful
\* NormalizeRecords run.  No row is skipped: a step that commits raw rows
\* commits them with a batch id above every stored normalize_batch_id, and
\* the MERGE results a run commits cover all rows of its window that the raw
\* table holds by then.  No row is merged twice: the window of a run that
\* commits starts at the stored normalize_batch_id.
RowsNormalizedOnce ==
    [][/\ (Len(raw') > Len(raw) /\ SubSeq(raw', 1, Len(raw)) = raw) =>
             \A j \in (Len(raw) + 1)..Len(raw') : \A i \in DOMAIN meta' :
                 raw'[j].batchID > meta'[i].normalizeBatchID
       /\ (norm.pc = "commit" /\ ret'.op = "normalize" /\ ret'.st = "ok") =>
             /\ \A i \in DOMAIN meta :
                   meta[i].normalizeBatchID = norm.normalizeBatchID
             /\ rawExists =>
                   norm.tx = MergeAll(dest, raw,
                                      DistinctTableNames(raw, norm.normalizeBatchID,
                                                         norm.syncBatchID),
                                      norm.normalizeBatchID, norm.syncBatchID)]_vars

\* C19: two rows are committed under one batch id that the stored
\* normalize_batch_id has reached, and the destination holds the one row that
\* the only MERGE found: no later window contains the other row.
RowSkipped ==
    /\ meta # <<>>
    /\ Len(raw) = 2
    /\ \A j \in DOMAIN raw : \A i \in DOMAIN meta :
          raw[j].batchID = 1 /\ meta[i].normalizeBatchID = 1
    /\ SumCounts(dest["t"], DestRows) = 1
    /\ norm.pc = "idle"

\* The window of the MERGE that the running NormalizeRecords has executed.
MergedWindow == InWindow(raw, "t", norm.normalizeBatchID, norm.syncBatchID)

\* C20: when NormalizeRecords has run its MERGE, the deduplicated source of
\* the MERGE holds at most one row per primary key, also when raw rows of the
\* key carry the same timestamp.
DedupOneRowPerKey ==
    norm.pc \in {"metadata", "commit"} =>
        \A k \in Keys : Cardinality(SourceOfKey(raw, MergedWindow, k)) <= 1

\* C20: the MERGE has run over a window in which two raw rows of one key, with
\* different values, carry the same timestamp: both are in its source.
DedupKeepsTie ==
    /\ norm.pc = "commit"
    /\ \E i \in MergedWindow : \E j \in MergedWindow \ {i} :
          /\ Flattened(raw, i).id = Flattened(raw, j).id
          /\ raw[i].timestamp = raw[j].timestamp
          /\ Flattened(raw, i).v # Flattened(raw, j).v
          /\ {i, j} \subseteq SourceOfKey(raw, MergedWindow, Flattened(raw, i).id)

\* The raw row of key k in the window that SyncRecords wrote last: raw rows
\* are appended in the order of the records in a batch, batch after batch.
LastOfKey(k) ==
    CHOOSE i \in EventsOfKey(k) : \A j \in EventsOfKey(k) : j <= i

\* No raw row carries a timestamp before that of a row written earlier.
TimestampsFollowOrder ==
    \A i \in 1..Len(raw) : \A j \in 1..Len(raw) :
        i < j => raw[i].timestamp <= raw[j].timestamp

\* C21: the timestamps of the raw rows never run against the order in which
\* the rows were written, and after NormalizeRecords succeeds the
\* destination row of every primary key with a raw row in the window equals
\* the data of the row of that key written last (no row if it is a delete).
SourceOrderWins ==
    /\ TimestampsFollowOrder
    /\ Normalized =>
          \A k \in Keys :
              EventsOfKey(k) # {} =>
                  IF raw[LastOfKey(k)].recordType = 2
                  THEN CountOfKey(dest["t"], k) = 0
                  ELSE /\ CountOfKey(dest["t"], k) = 1
                       /\ dest["t"][[id |-> k,
                                     v |-> Flattened(raw, LastOfKey(k)).v]] = 1

\* C21: NormalizeRecords succeeded over two rows of one key with different
\* timestamps, the row written first carries the later one, and the
\* destination holds its data and not the data of the row written last.
OlderRecordWins ==
    /\ Normalized
    /\ \E k \in Keys : \E i \in EventsOfKey(k) :
          /\ i < LastOfKey(k)
          /\ raw[i].timestamp > raw[LastOfKey(k)].timestamp
          /\ raw[i].recordType # 2
          /\ raw[LastOfKey(k)].recordType # 2
          /\ Flattened(raw, i).v # Flattened(raw, LastOfKey(k)).v
          /\ CountOfKey(dest["t"], k) = 1
          /\ dest["t"][[id |-> k, v |-> Flattened(raw, i).v]] = 1

\* SyncRecords has built its rows and has not returned.
InSyncTx(w) == sync[w].pc \in {"sync_tx", "sync_meta", "sync_commit"}

\* The raw row the claim describes for a record.
RowAsDescribed(rec, row) ==
    CASE rec.kind = "insert" -> row.recordType = 0 /\ row.matchData = NoJSON
      [] rec.kind = "update" -> /\ row.recordType = 1
                                /\ row.data = Marshal(rec.items)
                                /\ row.matchData = Marshal(rec.oldItems)
      [] rec.kind = "delete" -> /\ row.recordType = 2
                                /\ row.matchData = Marshal(rec.items)
      [] OTHER -> FALSE

\* C22: a SyncRecords call that got past its record loop holds one row per
\* record, all with the batch id of the call, each of the shape of its
\* record's kind, and no record of another kind; the step that makes it
\* return success appends exactly these rows and stores their batch id as
\* sync_batch_id; a call that returns the error of the record loop leaves
\* the raw table as it was.
RawRowsAsDescribed ==
    /\ [](\A w \in Workers :
            InSyncTx(w) =>
                /\ Len(sync[w].rows) = Len(sync[w].records)
                /\ \A i \in DOMAIN sync[w].rows :
                      /\ sync[w].rows[i].batchID = sync[w].syncBatchID
                      /\ RowAsDescribed(sync[w].records[i], sync[w].rows[i]))
    /\ [][\A w \in Workers :
            /\ (InSyncTx(w) /\ sync'[w].pc = "idle" /\ ret'.st = "ok") =>
                  /\ Len(raw') = Len(raw) + Len(sync[w].records)
                  /\ SubSeq(raw', 1, Len(raw)) = raw
                  /\ SubSeq(raw', Len(raw) + 1, Len(raw')) = sync[w].rows
                  /\ SyncBatchIDs(meta') = {sync[w].syncBatchID}
            /\ (ret'.st = "err" /\ ret'.at = "record") => raw' = raw]_vars

\* C22: SyncRecords returned success having appended the rows of an update
\* and a delete to a raw table that already held rows.
UpdateAndDeleteWritten ==
    /\ SyncReturned("ok") /\ ret.num = 2
    /\ pre.raw # <<>>
    /\ Len(raw) = Len(pre.raw) + 2
    /\ raw[Len(raw) - 1].recordType = 1
    /\ raw[Len(raw)].recordType = 2
    /\ raw[Len(raw)].matchData # NoJSON

\* C23: the step that makes SyncRecords return success after writing its
\* records returns the checkpoint of the first record as first_cp, the last
\* checkpoint of the batch as last_cp, the number of records as
\* num_rows_synced, and as current_sync_batch_id the sync_batch_id the step
\* stores.
ResponseAsDescribed ==
    [][\A w \in Workers :
          (InSyncTx(w) /\ sync'[w].pc = "idle" /\ ret'.st = "ok") =>
              /\ ret'.first = GetCheckPointID(sync[w].records[1])
              /\ ret'.last = sync[w].lastCP
              /\ ret'.num = Len(sync[w].records)
              /\ SyncBatchIDs(meta') = {ret'.currentSyncBatchID}]_vars

\* C23: SyncRecords returned success having written two records, its
\* response carries their count and checkpoints, and its
\* current_sync_batch_id is not the sync_batch_id the call stored.
ResponseWithoutBatchID ==
    /\ SyncReturned("ok") /\ ret.num = 2
    /\ ret.first = 1 /\ ret.last = MaxCP
    /\ meta # <<>>
    /\ meta[1].syncBatchID = MaxBatchID
    /\ ret.currentSyncBatchID # meta[1].syncBatchID

\* The destination type the claim gives for a generic column type.
TypeAsDescribed(colType) ==
    CASE colType = "bool" -> "BOOLEAN"
      [] colType \in {"int32", "int64"} -> "INT"
      [] colType \in {"float32", "float64"} -> "FLOAT"
      [] colType = "string" -> "STRING"
      [] colType = "timestamp" -> "TIMESTAMP_NTZ"
      [] colType = "numeric" -> "NUMBER(38,20)"
      [] colType = "bytes" -> "BINARY"
      [] colType = "json" -> "VARIANT"
      [] colType \in {"array_int32", "array_string"} -> "ARRAY"
      [] OTHER -> "STRING"

\* C24: every column of a normalized table that SetupNormalizedTable created
\* has the destination type the mapping is said to return for the generic
\* type of its source column: BOOLEAN for bool, INT for int32 and int64,
\* FLOAT for float32 and float64, STRING for string, TIMESTAMP_NTZ for
\* timestamp, NUMBER(38,20) for numeric, BINARY for bytes, VARIANT for json,
\* ARRAY for array types and STRING for an unknown type.
TypeMappingAsDescribed ==
    createTable.exists =>
        \A col \in createTable.columns :
            col.type = TypeAsDescribed(createTable.schema.Columns[col.of])

\* C24: SetupNormalizedTable created a table whose numeric source column
\* has the destination type STRING.
NumericColumnIsString ==
    /\ createTable.exists /\ createTable.ret = "Created"
    /\ \E col \in createTable.columns :
          /\ createTable.schema.Columns[col.of] = "numeric"
          /\ col.type = "STRING"

IsPrefix(a, b) == Len(a) <= Len(b) /\ SubSeq(b, 1, Len(a)) = a

\* C25: every step keeps the committed raw rows as they are and in their
\* place, possibly with new rows after them, except the step of
\* SyncFlowCleanup that drops the raw table.
RawAppendOnly ==
    [][\/ IsPrefix(raw, raw')
       \/ clean.pc = "idle" /\ clean'.pc = "delete"]_vars

\* C25: NormalizeRecords returned success having merged the rows of two
\* batches, and the raw table still holds them.
RawKeptAfterNormalize ==
    /\ Normalized
    /\ Len(raw) >= 2
    /\ raw = pre.raw
    /\ raw[1].batchID = 1 /\ raw[Len(raw)].batchID = 2
    /\ ret.end = 2

\* C26: SyncFlowCleanup takes a step only in a DropFlow whose PullFlowCleanup
\* has returned success, and the step at which DropFlow returns the error
\* of the source cleanup leaves the raw table and the metadata row as they
\* were when DropFlow began.
DestinationCleanupAfterSource ==
    /\ [](clean.pc # "idle" => drop.pc = "sync" /\ drop.srcCleaned)
    /\ [][/\ (clean'.pc # clean.pc \/ (ret'.op = "cleanup" /\ ret' # ret)) =>
                drop.pc = "sync" /\ drop.srcCleaned
          /\ (drop.pc = "pull" /\ drop'.ret = "failed to cleanup source") =>
                /\ drop'.pc = "idle"
                /\ <<meta', rawExists', raw'>> = <<meta, rawExists, raw>>
                /\ <<meta, rawExists, raw>> =
                      <<pre.meta, pre.rawExists, pre.raw>>]_vars

\* C26: DropFlow returned the error of the source cleanup on a job whose
\* raw table holds rows and whose metadata row exists.
SourceCleanupFailed ==
    /\ drop.pc = "idle"
    /\ drop.ret = "failed to cleanup source"
    /\ rawExists /\ raw # <<>> /\ meta # <<>>
    /\ clean.pc = "idle" /\ ret.op # "cleanup"

\* The steps of StartFlow at which a write to the catalog monitor fails.
MonitorSites == {"monitor_batch", "monitor_lsn"}

\* C27: when StartFlow returns after pulling a batch of n > 0 records,
\* having met no failure or only the failure of a catalog monitor write,
\* the destination holds what it holds when every monitor write succeeds:
\* the n raw rows of the batch after the rows it held and the batch's last
\* checkpoint as offset.
MonitorOutcomeIndependent ==
    [][\A w \in Workers :
          (/\ sync[w].flow /\ sync'[w].pc = "idle"
           /\ ret'.op = "flow"
           /\ (ret'.st = "ok" \/ ret'.at \in MonitorSites)) =>
              LET n == IF sync[w].pc = "flow_pulled"
                       THEN Len(sync[w].records) ELSE sync[w].res.num
              IN n > 0 =>
                    /\ Len(raw') = Len(pre.raw) + n
                    /\ Offsets(meta') = {sync[w].lastCP}]_vars

\* C27: StartFlow returned the error of the monitor write that precedes
\* SyncRecords, and the destination holds nothing of the pulled batch.
MonitorFailureSkipsSync ==
    /\ ret = Err("flow", "monitor_batch")
    /\ rawExists
    /\ raw = pre.raw /\ meta = pre.meta

\* C28: the end time of the partition is recorded only in a
\* replicateQRepPartition that returned success and whose pull of the
\* partition has not failed.
EndTimeOnlyOnSuccess ==
    qrep.partEnd =>
        /\ qrep.pc = "returned" /\ qrep.ret = "nil"
        /\ qrep.goroutineErr # "pull"

\* C28: PullQRepRecordStream had failed when replicateQRepPartition
\* returned, and the end time of the partition is recorded.
EndTimeAfterPullFailure ==
    /\ qrep.partEnd /\ qrep.pc = "returned"
    /\ qrep.sawFailure
    /\ qrep.goroutineErr = "pull"

\* QRepWaitUntilNewRows takes the step of a check.
CheckStep == wait.pc = "check" /\ wait'.pc # "check"

\* C29: with a Postgres source QRepWaitUntilNewRows has returned success
\* only if its latest check reported new rows; it has slept since the
\* check before, or since its begin, whenever it checks; the step of a
\* check that fails returns the error, and the step of a check that
\* reports no new rows returns nothing; with another source it returns
\* success at its first step without a sleep or a check.
WaitAsDescribed ==
    /\ []((wait.pc = "returned" /\ wait.pg /\ wait.ret = "nil") =>
             wait.checked /\ wait.newRows)
    /\ []((wait.pc = "returned" /\ ~wait.pg) =>
             wait.ret = "nil" /\ ~wait.checked /\ ~wait.slept)
    /\ [][/\ CheckStep => wait.slept
          /\ (CheckStep /\ wait'.ret = "failed to check for new rows") =>
                wait'.pc = "returned"
          /\ (CheckStep /\ ~wait'.newRows /\ wait'.ret # "failed to check for new rows") =>
                wait'.pc = "sleep" /\ wait'.ret = "none"
          /\ (wait.pc = "idle" /\ wait'.pc # "idle" /\ ~wait'.pg) =>
                wait'.pc = "returned"]_vars

\* C29: QRepWaitUntilNewRows returned success with a Postgres source after
\* a check that reported no new rows and a later one that reported them.
NewRowsAfterSecondCheck ==
    /\ wait.pc = "returned" /\ wait.pg /\ wait.ret = "nil"
    /\ wait.attemptCount = 2
    /\ wait.checked /\ wait.newRows

LastOffsetAsDescribed ==
    (ret.op = "offset" /\ ret.st = "ok") =>
        IF meta = <<>> \/ Offsets(meta) = {0}
        THEN ret.nil
        ELSE ~ret.nil /\ ret.last \in Offsets(meta) /\ ret.last # 0

\* C31: a batch was committed with last checkpoint 0 and GetLastOffset
\* returned no last sync state.
CommittedBatchReportedUnsynced ==
    /\ ret.op = "offset" /\ ret.st = "ok" /\ ret.nil
    /\ meta # <<>> /\ Offsets(meta) = {0}
    /\ raw # <<>>
    /\ SyncBatchIDs(meta) = {1}

\* In the metadata m nothing is pending: there is no row, or the stored
\* sync_batch_id equals the stored normalize_batch_id.
CaughtUp(m) ==
    m = <<>> \/ \A i \in DOMAIN m : m[i].syncBatchID = m[i].normalizeBatchID

\* C32: a NormalizeRecords that began with nothing pending has left the
\* metadata and every destination table as they were; it returned its
\* response (Done) without a window of batches, or the error of one of its
\* two reads of the batch ids.
NothingPendingIsNoOp ==
    (ret.op = "normalize" /\ CaughtUp(pre.meta)) =>
        /\ meta = pre.meta
        /\ dest = pre.dest
        /\ ret.st = "ok" => ~ret.worked /\ ret.start = 0 /\ ret.end = 0
        /\ ret.st = "err" => ret.at \in {"idle", "read"}

\* C32: NormalizeRecords returned Done on a job whose batch 1 it had
\* normalized before.
NormalizeFoundNothingPending ==
    /\ ret.op = "normalize" /\ ret.st = "ok" /\ ~ret.worked
    /\ pre.meta # <<>>
    /\ pre.meta[1].syncBatchID = 1 /\ pre.meta[1].normalizeBatchID = 1
    /\ raw # <<>>

\* C33: a StartNormalize whose NormalizeRecords found no record pending
\* leaves the CDC end times of the monitor as they are, and one whose
\* NormalizeRecords normalized batches records an end time for no batch
\* but the last one normalized.
EndTimeOnlyForNormalizedBatch ==
    [][(/\ actRet'.op = "StartNormalize"
        /\ "NormalizeRecords" \in destCalls'
        /\ actRet'.err = "nil") =>
           IF actRet'.res = NothingPendingResponse
           THEN catalog'.cdcEnd = catalog.cdcEnd
           ELSE catalog'.cdcEnd \subseteq catalog.cdcEnd \cup {actRet'.res.end}]_vars

\* C33: StartNormalize returned the response of a NormalizeRecords that
\* found nothing pending, and the monitor holds an end time for batch 0.
EndTimeWithoutNormalize ==
    /\ actRet.op = "StartNormalize" /\ actRet.err = "nil"
    /\ "NormalizeRecords" \in destCalls
    /\ actRet.res = NothingPendingResponse
    /\ 0 \in catalog.cdcEnd

\* C34: also when SyncRecords executions of the job interleave, a step that
\* commits raw rows commits them under a batch id that no raw row committed
\* before carries.
CommittedBatchIDsDistinct ==
    [][(Len(raw') > Len(raw) /\ SubSeq(raw', 1, Len(raw)) = raw) =>
          \A j \in (Len(raw) + 1)..Len(raw') : \A k \in DOMAIN raw :
              raw'[j].batchID # raw[k].batchID]_vars

\* C34: both SyncRecords executions have committed their one row, and both
\* rows carry batch id 1.
TwoCommitsOneBatchID ==
    /\ Len(raw) = 2
    /\ raw[1].batchID = 1 /\ raw[2].batchID = 1
    /\ \A w \in Workers : sync[w].pc = "idle"
    /\ SyncReturned("ok")

\* C35: when replicateQRepPartition has returned after starting its pull
\* goroutine, the goroutine has finished.
ReturnsAfterGoroutine ==
    (qrep.pc = "returned" /\ qrep.gpc # "none") => qrep.gpc = "done"

\* C35: SyncQRepRecords failed and replicateQRepPartition returned its
\* error while the goroutine is still in PullQRepRecordStream.
ReturnedWhilePulling ==
    /\ qrep.pc = "returned" /\ qrep.pg
    /\ qrep.ret = "failed to sync records"
    /\ qrep.gpc = "pull"

\* C36: with a Postgres source, when the end time of the partition is
\* recorded the goroutine has recorded the pull end time and the row count
\* of the partition.
PullEndBeforePartitionEnd ==
    (qrep.pg /\ qrep.partEnd) =>
        /\ qrep.gpc = "done"
        /\ qrep.goroutineErr # "monitor"

\* C36: the goroutine has pulled an empty partition without error and not
\* yet recorded the pull end time, SyncQRepRecords returned 0 rows and the
\* end time of the partition is recorded.
PartitionEndBeforePullEnd ==
    /\ qrep.pg /\ qrep.partEnd
    /\ qrep.gpc = "monitor"
    /\ qrep.goroutineErr = "nil"
    /\ qrep.numRecords = 0 /\ qrep.res = 0

\* C37: once a first Schema() call has returned what was delivered on the
\* schema channel, a further Schema() call does not wait (the schema is
\* cached or the channel holds something), and every later call has
\* returned what the first call returned.
LaterSchemaCallsAgree ==
    /\ consumer.schemaCalls >= 1 =>
          (stream.schemaCache # Null \/ Len(stream.schema) > 0)
    /\ consumer.schemaCalls >= 2 => consumer.last = consumer.first

\* C37: the first Schema() call returned the error delivered on the schema
\* channel; nothing is cached and the channel is empty, so the next call
\* waits.
SchemaWaitsAfterError ==
    /\ consumer.schemaCalls = 1
    /\ consumer.first = SchemaResult(Null, "err")
    /\ stream.schemaCache = Null
    /\ stream.schema = <<>>

\* C38: every committed raw row of the job carries a batch id from 1 up to
\* the sync_batch_id that the metadata of the job stores.
RawRowsWithinSyncBatchID ==
    \A j \in DOMAIN raw :
        /\ raw[j].batchID >= 1
        /\ meta # <<>>
        /\ \A i \in DOMAIN meta : raw[j].batchID <= meta[i].syncBatchID

\* C38: no SyncRecords is running, the metadata of the job stores
\* sync_batch_id 1 and a committed raw row carries batch id 2.
RawRowBeyondSyncBatchID ==
    /\ \A w \in Workers : sync[w].pc = "idle"
    /\ Len(meta) = 1 /\ meta[1].syncBatchID = 1
    /\ \E j \in DOMAIN raw : raw[j].batchID = 2

\* C39: when the SyncRecords of a StartFlow that has recorded its batch in
\* the monitor commits the raw rows of the batch, it commits them under the
\* batch id that StartFlow recorded.
MonitorBatchIDIsCommitted ==
    [][\A w \in Workers :
          (/\ sync[w].pc = "sync_commit" /\ sync'[w].pc = "flow_pushed"
           /\ sync[w].monitorBatchID # 0) =>
              sync[w].monitorBatchID = sync[w].syncBatchID]_vars

\* C39: two StartFlow executions have both recorded batch id 1 in the
\* monitor and both committed their one row, one under batch id 1 and the
\* other under batch id 2.
MonitorBatchIDNotCommitted ==
    /\ \A w \in Workers :
          sync[w].pc = "flow_pushed" /\ sync[w].monitorBatchID = 1
    /\ Len(raw) = 2
    /\ {raw[j].batchID : j \in DOMAIN raw} = {1, 2}
====
